---- MODULE Spec2Model ----
(***************************************************************************)
(* Model of the email ingestion and rule-based classification pipeline:    *)
(*   - classify_email / analyze_subject / reclassify_dataset               *)
(*     (src/src/classifier/rule_based.py)                                  *)
(*   - strip_replies (src/src/emails/read_mail.py)                         *)
(*                                                                         *)
(* Representation of values.                                               *)
(*   A text is a sequence of tokens; the concrete string is the tokens     *)
(*   joined by a single space.  A token is a word of Words or the          *)
(*   whitespace token "\n".  Every regular expression of the pattern       *)
(*   tables is modelled by the set of vocabulary words it matches.         *)
(*   Scores are counted in half points (score 2.0 is 4), confidences and   *)
(*   thresholds in tenths (confidence 0.5 is 5); every score the code      *)
(*   computes is a multiple of 0.5, so both are exact.                     *)
(***************************************************************************)
EXTENDS Integers, Sequences, FiniteSets, TLC

VARIABLES
    \* classify_email
    email_text, pc, text, score, matched, is_casual, confidence,
    \* reclassify_dataset
    emails_and_labels, threshold, verbose, updated, flipped_count, rc_i, rc_pc,
    \* strip_replies
    body, sr_i, kept, sr_state, sr_pc, sr_result,
    \* _extract_body_from_payload, _extract_attachments, _get_body
    payload, ex_pc, pending, plain_parts, html_parts, body_raw, attachments,
    \* fetch_recent_emails
    fetcher, inbox, f_i, emails, f_pc,
    \* server_label / classify, classify_email (remote classifier clients)
    caller, responses, q_i, q_label, business_list, q_pc,
    \* a caller's successive classify_email calls
    calls,
    \* analyze_dataset
    results, an_i, an_pc,
    \* messages processed side by side
    workers,
    \* an IMAP session: fetch_recent_emails, process_emails
    flow, limit, mailbox, im_ids, im_i, im_emails, im_pc, im_exit, logins, logouts,
    \* st.session_state of the UI
    authenticated, st_emails, classified_emails, todos

cvars == <<email_text, pc, text, score, matched, is_casual, confidence>>
rvars == <<emails_and_labels, threshold, verbose, updated, flipped_count, rc_i, rc_pc>>
svars == <<body, sr_i, kept, sr_state, sr_pc, sr_result>>
xvars == <<payload, ex_pc, pending, plain_parts, html_parts, body_raw, attachments>>
fvars == <<fetcher, inbox, f_i, emails, f_pc>>
qvars == <<caller, responses, q_i, q_label, business_list, q_pc>>
hvars == <<calls>>
avars == <<results, an_i, an_pc>>
wvars == <<workers>>
ivars == <<flow, limit, mailbox, im_ids, im_i, im_emails, im_pc, im_exit, logins, logouts>>
uvars == <<authenticated, st_emails, classified_emails, todos>>
lvars == <<ivars, uvars>>
ovars == <<hvars, avars, wvars, lvars>>
nvars == <<xvars, fvars, qvars, ovars>>
vars == <<cvars, rvars, svars, nvars>>

----------------------------------------------------------------------------
\* Bounds of the model.

\* Longest free part of a generated text, in tokens.
MaxLen == 3
\* Number of neutral words appended to make a long text.
PadWords == 8
\* Largest number of entries of a dataset.
MaxEntries == 2
\* Largest number of lines of a body.
MaxLines == 3
\* Largest number of parts of a multipart message.
MaxParts == 2

----------------------------------------------------------------------------
\* Helpers.

Min(a, b) == IF a <= b THEN a ELSE b

Abs(a) == IF a < 0 THEN -a ELSE a

\* The elements of a sequence.
Range(s) == {s[i] : i \in DOMAIN s}

\* The largest and the smallest element of a set of integers that is not empty.
Highest(S) == CHOOSE i \in S : \A j \in S : j <= i

Lowest(S) == CHOOSE i \in S : \A j \in S : i <= j

----------------------------------------------------------------------------
\* Vocabulary.

Words == {"lol", "hey", "yeah", "regards", "best", "contract", "budget",
          "client", "meeting", "joke", "subject:", "fwd:", "x"}

Tokens == Words \cup {"\n"}

IsWord(t) == t # "\n"

\* " ".join(email_text.split()): whitespace runs collapse, so only words stay.
Normalize(tokens) == SelectSeq(tokens, IsWord)

\* len(text.split())
WordCount(t) == Len(SelectSeq(t, IsWord))

----------------------------------------------------------------------------
\* Pattern tables.  A pattern is [kind, a, b]:
\*   "word": some word of a occurs in the text;
\*   "end" : the text ends with a word of a            (\b(best)\b$);
\*   "seq" : a word of a occurs before a word of b     ((fwd:).*\b(joke)\b).
\* Patterns that match no text over Words have kind "word" and a = {}.

NoMatch == [kind |-> "word", a |-> {}, b |-> {}]

WordPat(ws) == [kind |-> "word", a |-> ws, b |-> {}]

STRONG_BUSINESS ==
    [i \in 1..8 |-> CASE i = 1 -> WordPat({"contract"})
                      [] i = 4 -> WordPat({"budget"})
                      [] i = 7 -> WordPat({"client"})
                      [] OTHER -> NoMatch]

MEDIUM_BUSINESS ==
    [i \in 1..11 |-> CASE i = 1 -> WordPat({"meeting"})
                       [] OTHER -> NoMatch]

WEAK_BUSINESS ==
    [i \in 1..3 |-> CASE i = 1 -> WordPat({"regards"})
                      [] i = 3 -> [kind |-> "end", a |-> {"best"}, b |-> {}]
                      [] OTHER -> NoMatch]

STRONG_CASUAL ==
    [i \in 1..13 |-> CASE i = 1 -> WordPat({"lol"})
                       [] OTHER -> NoMatch]

MEDIUM_CASUAL ==
    [i \in 1..28 |-> CASE i = 13 -> WordPat({"joke"})
                       [] i = 14 -> [kind |-> "seq", a |-> {"fwd:"}, b |-> {"joke"}]
                       [] OTHER -> NoMatch]

WEAK_CASUAL ==
    [i \in 1..8 |-> CASE i = 3 -> WordPat({"hey"})
                      [] i = 4 -> WordPat({"yeah"})
                      [] OTHER -> NoMatch]

\* regex.search(text)
Matches(p, t) ==
    CASE p.kind = "word" -> \E i \in DOMAIN t : t[i] \in p.a
      [] p.kind = "end"  -> Len(t) > 0 /\ t[Len(t)] \in p.a
      [] p.kind = "seq"  -> \E i \in DOMAIN t : \E j \in DOMAIN t :
                                i < j /\ t[i] \in p.a /\ t[j] \in p.b

\* Mutant: a pattern counts once for every occurrence of one of its words.
CountOccurrences(tier, t) ==
    Cardinality({ik \in (DOMAIN tier) \X (DOMAIN t) :
                    tier[ik[1]].kind = "word" /\ t[ik[2]] \in tier[ik[1]].a})
    + Cardinality({i \in DOMAIN tier : tier[i].kind # "word" /\ Matches(tier[i], t)})

\* sum(1 for r in TIER if r.search(text))
CountMatches(tier, t) == Cardinality({i \in DOMAIN tier : Matches(tier[i], t)})

\* The entries a "for regex in TIER" loop appends, in table order.
TierMatched(tag, tier, t) ==
    LET Hit(e) == Matches(tier[e[2]], t)
    IN  SelectSeq([i \in DOMAIN tier |-> <<tag, i>>], Hit)

----------------------------------------------------------------------------
\* Program constants, in half points (scores) and tenths (confidence).

\* score -= 2.0 / score += 2.0
StrongWeight == 4
\* score -= 1.0 / score += 1.0
MediumWeight == 2
\* 0.5 * weak_biz_count / 0.5 * weak_count
WeakWeight == 1
\* if weak_biz_count >= 1
WeakBusinessMin == 1
\* if weak_count >= 2
WeakCasualMin == 2
\* if word_count <= 10
ShortWordLimit == 10
\* score += 0.5
ShortBonus == 1
\* min(abs(score) / 5.0, 1.0): 1.0 in tenths
FullConfidence == 10
\* if fw_count >= 2
MinForwards == 2
\* score += 2.0 for multiple forwards
ForwardBonus == 4
\* score -= 1.0 / score += 1.0 for a subject keyword
SubjectWeight == 2

----------------------------------------------------------------------------
\* analyze_subject

\* re.search(r"subject:\s*(.+?)(\n|$)", text): the places where it can match.
SubjectStarts(t) == {i \in DOMAIN t : t[i] = "subject:" /\ i < Len(t)}

\* group(1): after the leading whitespace, the words up to the line's end.
SubjectOf(t) ==
    LET i == CHOOSE k \in SubjectStarts(t) : \A m \in SubjectStarts(t) : k <= m
        rest == SubSeq(t, i + 1, Len(t))
        lead == {k \in DOMAIN rest : \A m \in 1..k : rest[m] = "\n"}
        from == Cardinality(lead) + 1
        tail == SubSeq(rest, from, Len(rest))
        stops == {k \in DOMAIN tail : tail[k] = "\n"}
        upto == IF stops = {} THEN Len(tail)
                ELSE (CHOOSE k \in stops : \A m \in stops : k <= m) - 1
    IN  SubSeq(tail, 1, upto)

\* subject.lower().count("fw:") + subject.lower().count("fwd:")
FwCount(subject) == Cardinality({i \in DOMAIN subject : subject[i] = "fwd:"})

\* Mutant: the forward bonus needs more than two markers.
MultipleForwardsStrict(subject) == FwCount(subject) > MinForwards

\* fw_count >= 2
MultipleForwards(subject) == FwCount(subject) >= MinForwards

\* \b(Q[1-4]|budget|report|meeting|action|agenda)\b
BusinessSubject(subject) == Range(subject) \cap {"budget", "meeting"} # {}

\* \b(joke|funny|fwd|fw|re: re:|lol|haha)\b
CasualSubject(subject) == Range(subject) \cap {"joke", "lol", "fwd:"} # {}

\* The (score, matched) pair analyze_subject returns.
analyze_subject(t) ==
    IF SubjectStarts(t) = {} THEN [score |-> 0, matched |-> <<>>]
    ELSE LET subject == SubjectOf(t)
             fw == MultipleForwards(subject)
             biz == BusinessSubject(subject)
             cas == CasualSubject(subject)
         IN  [score   |-> (IF fw THEN ForwardBonus ELSE 0)
                          - (IF biz THEN SubjectWeight ELSE 0)
                          + (IF cas THEN SubjectWeight ELSE 0),
              matched |-> (IF fw THEN <<<<"SUBJ: multiple forwards", FwCount(subject)>>>>
                           ELSE <<>>)
                          \o (IF biz THEN <<<<"SUBJ: business keyword", 1>>>> ELSE <<>>)
                          \o (IF cas THEN <<<<"SUBJ: casual keyword", 1>>>> ELSE <<>>)]

----------------------------------------------------------------------------
\* classify_email: the contribution of each block of the function.

\* for regex in STRONG_BUSINESS: score -= 2.0
StrongBusinessScore(t) == -(StrongWeight * CountMatches(STRONG_BUSINESS, t))

\* for regex in MEDIUM_BUSINESS: score -= 1.0
MediumBusinessScore(t) == -(MediumWeight * CountMatches(MEDIUM_BUSINESS, t))

\* if weak_biz_count >= 1: score -= 0.5 * weak_biz_count
WeakBusinessCounts(n) == n >= WeakBusinessMin

WeakBusinessScore(t) ==
    LET weak_biz_count == CountMatches(WEAK_BUSINESS, t)
    IN  IF WeakBusinessCounts(weak_biz_count) THEN -(WeakWeight * weak_biz_count) ELSE 0

WeakBusinessMatched(t) ==
    LET weak_biz_count == CountMatches(WEAK_BUSINESS, t)
    IN  IF WeakBusinessCounts(weak_biz_count) THEN <<<<"BIZ_WEAK", weak_biz_count>>>>
        ELSE <<>>

\* for regex in STRONG_CASUAL: score += 2.0
StrongCasualScore(t) == StrongWeight * CountMatches(STRONG_CASUAL, t)

\* for regex in MEDIUM_CASUAL: score += 1.0
MediumCasualScore(t) == MediumWeight * CountMatches(MEDIUM_CASUAL, t)

\* Mutant: weak casual signals count from the first match.
WeakCasualCountsFromOne(n) == n >= 1

\* if weak_count >= 2: score += 0.5 * weak_count
WeakCasualCounts(n) == n >= WeakCasualMin

WeakCasualScore(t) ==
    LET weak_count == CountMatches(WEAK_CASUAL, t)
    IN  IF WeakCasualCounts(weak_count) THEN WeakWeight * weak_count ELSE 0

WeakCasualMatched(t) ==
    LET weak_count == CountMatches(WEAK_CASUAL, t)
    IN  IF WeakCasualCounts(weak_count) THEN <<<<"CASUAL_WEAK", weak_count>>>> ELSE <<>>

\* Mutant: every short text is boosted, whatever its score.
ShortBoostAnyScore(t, s) == WordCount(t) <= ShortWordLimit

\* Mutant: the boost also applies to a score of zero.
ShortBoostFromZero(t, s) == WordCount(t) <= ShortWordLimit /\ s >= 0

\* Mutant: the boost stops one word early.
ShortBoostOffByOne(t, s) == WordCount(t) < ShortWordLimit /\ s > 0

\* if word_count <= 10 and score > 0
ShortBoostApplies(t, s) == WordCount(t) <= ShortWordLimit /\ s > 0

\* Mutant: a tie resolves to casual.
IsCasualNonStrict(s) == s >= 0

\* score > 0
IsCasual(s) == s > 0

\* Mutant: the confidence is not clamped.
ConfidenceUnclamped(s) == Abs(s)

\* min(abs(score) / 5.0, 1.0), in tenths: abs(score) / 5.0 is abs(2 * score) / 10
Confidence(s) == Min(Abs(s), FullConfidence)

\* The score before the short-message block.
RunningScore(t) ==
    analyze_subject(t).score
    + StrongBusinessScore(t) + MediumBusinessScore(t) + WeakBusinessScore(t)
    + StrongCasualScore(t) + MediumCasualScore(t) + WeakCasualScore(t)

\* The score classify_email ends with.
FinalScore(t) ==
    RunningScore(t) + (IF ShortBoostApplies(t, RunningScore(t)) THEN ShortBonus ELSE 0)

\* The matched list classify_email ends with.
MatchedList(t) ==
    analyze_subject(t).matched
    \o TierMatched("BIZ_STRONG", STRONG_BUSINESS, t)
    \o TierMatched("BIZ_MED", MEDIUM_BUSINESS, t)
    \o WeakBusinessMatched(t)
    \o TierMatched("CASUAL_STRONG", STRONG_CASUAL, t)
    \o TierMatched("CASUAL_MED", MEDIUM_CASUAL, t)
    \o WeakCasualMatched(t)
    \o (IF ShortBoostApplies(t, RunningScore(t)) THEN <<<<"SHORT_BOOST", WordCount(t)>>>>
        ELSE <<>>)

\* classify_email as a function of a str argument: (is_casual, confidence, matched).
classify_email(tokens) ==
    LET t == Normalize(tokens)
    IN  [is_casual  |-> IsCasual(FinalScore(t)),
         confidence |-> Confidence(FinalScore(t)),
         matched    |-> MatchedList(t)]

----------------------------------------------------------------------------
\* Inputs.

Pad(n) == [i \in 1..n |-> "x"]

Cores == UNION {[1..n -> Tokens] : n \in 0..MaxLen}

\* Texts of a subject line and one line of body.
SubjectAndBody ==
    {<<"subject:", w, "\n">> \o b :
        w \in {"x", "budget", "lol"},
        b \in {<<"x">>, <<"budget">>, <<"joke">>, <<"fwd:", "fwd:">>}}

\* The texts the model classifies: a free part, alone or followed by PadWords
\* words, and the texts of a subject line and a body.
Texts == {c \o Pad(n) : c \in Cores, n \in {0, PadWords}} \cup SubjectAndBody

\* An argument of classify_email: a str, or an object that is not text (None).
StrInput(tokens) == [type |-> "str", value |-> tokens]

NoneInput == [type |-> "NoneType", value |-> <<>>]

Inputs == {StrInput(t) : t \in Texts} \cup {NoneInput}

----------------------------------------------------------------------------
\* classify_email, statement by statement.

ClassifyIdle ==
    /\ email_text = NoneInput /\ pc = "idle" /\ text = <<>> /\ score = 0
    /\ matched = <<>> /\ is_casual = FALSE /\ confidence = 0

ReclassifyIdle ==
    /\ emails_and_labels = <<>> /\ threshold = 0 /\ verbose = FALSE
    /\ updated = <<>> /\ flipped_count = 0 /\ rc_i = 0 /\ rc_pc = "idle"

StripIdle ==
    /\ body = <<>> /\ sr_i = 0 /\ kept = <<>> /\ sr_state = "COLLECTING"
    /\ sr_pc = "idle" /\ sr_result = <<>>

ExtractIdle ==
    /\ payload = [mimeType |-> ""] /\ ex_pc = "idle" /\ pending = <<>>
    /\ plain_parts = <<>> /\ html_parts = <<>> /\ body_raw = <<>>
    /\ attachments = <<>>

FetchIdle ==
    /\ fetcher = "gmail" /\ inbox = <<>> /\ f_i = 1 /\ emails = <<>> /\ f_pc = "idle"

RemoteIdle ==
    /\ caller = "classify" /\ responses = <<>> /\ q_i = 1 /\ q_label = <<>>
    /\ business_list = <<>> /\ q_pc = "idle"

SessionIdle == calls = <<>>

AnalyzeIdle == results = <<>> /\ an_i = 0 /\ an_pc = "idle"

WorkersIdle == workers = <<>>

ImapIdle ==
    /\ flow = "fetch_recent_emails" /\ limit = 0 /\ mailbox = <<>> /\ im_ids = <<>>
    /\ im_i = 1 /\ im_emails = <<>> /\ im_pc = "idle" /\ im_exit = "idle"
    /\ logins = 0 /\ logouts = 0

UiIdle ==
    /\ authenticated = FALSE /\ st_emails = <<>> /\ classified_emails = <<>>
    /\ todos = <<>>

OthersIdle == SessionIdle /\ AnalyzeIdle /\ WorkersIdle /\ ImapIdle /\ UiIdle

InitClassify ==
    /\ email_text \in Inputs
    /\ pc = "call"
    /\ text = <<>> /\ score = 0 /\ matched = <<>>
    /\ is_casual = FALSE /\ confidence = 0
    /\ ReclassifyIdle /\ StripIdle /\ ExtractIdle /\ FetchIdle /\ RemoteIdle /\ OthersIdle

\* Mutant: the call goes on from the score the call before ended with.
BeginKeepsScore ==
    /\ pc = "call" /\ email_text.type = "str"
    /\ text' = Normalize(email_text.value)
    /\ matched' = <<>>
    /\ pc' = "subject"
    /\ UNCHANGED <<email_text, score, is_casual, confidence, rvars, svars, nvars>>

\* text = " ".join(email_text.split()); matched = []; score = 0.0
Begin ==
    /\ pc = "call" /\ email_text.type = "str"
    /\ text' = Normalize(email_text.value)
    /\ matched' = <<>> /\ score' = 0
    /\ pc' = "subject"
    /\ UNCHANGED <<email_text, is_casual, confidence, rvars, svars, nvars>>

\* email_text.split() on an object without split: AttributeError
BeginRaise ==
    /\ pc = "call" /\ email_text.type # "str"
    /\ pc' = "raised"
    /\ UNCHANGED <<email_text, text, score, matched, is_casual, confidence, rvars, svars, nvars>>

Step(from, to, delta, found) ==
    /\ pc = from
    /\ score' = score + delta
    /\ matched' = matched \o found
    /\ pc' = to
    /\ UNCHANGED <<email_text, text, is_casual, confidence, rvars, svars, nvars>>

SubjectStep ==
    Step("subject", "strong_biz", analyze_subject(text).score, analyze_subject(text).matched)

StrongBusinessStep ==
    Step("strong_biz", "medium_biz", StrongBusinessScore(text),
         TierMatched("BIZ_STRONG", STRONG_BUSINESS, text))

MediumBusinessStep ==
    Step("medium_biz", "weak_biz", MediumBusinessScore(text),
         TierMatched("BIZ_MED", MEDIUM_BUSINESS, text))

WeakBusinessStep ==
    Step("weak_biz", "strong_casual", WeakBusinessScore(text), WeakBusinessMatched(text))

StrongCasualStep ==
    Step("strong_casual", "medium_casual", StrongCasualScore(text),
         TierMatched("CASUAL_STRONG", STRONG_CASUAL, text))

MediumCasualStep ==
    Step("medium_casual", "weak_casual", MediumCasualScore(text),
         TierMatched("CASUAL_MED", MEDIUM_CASUAL, text))

WeakCasualStep ==
    Step("weak_casual", "short", WeakCasualScore(text), WeakCasualMatched(text))

ShortBoostStep ==
    Step("short", "decide",
         IF ShortBoostApplies(text, score) THEN ShortBonus ELSE 0,
         IF ShortBoostApplies(text, score) THEN <<<<"SHORT_BOOST", WordCount(text)>>>>
         ELSE <<>>)

\* is_casual = score > 0; confidence = min(abs(score) / 5.0, 1.0); return
Decide ==
    /\ pc = "decide"
    /\ is_casual' = IsCasual(score)
    /\ confidence' = Confidence(score)
    /\ pc' = "done"
    /\ UNCHANGED <<email_text, text, score, matched, rvars, svars, nvars>>

NextClassify ==
    \/ Begin \/ BeginRaise \/ SubjectStep \/ StrongBusinessStep \/ MediumBusinessStep
    \/ WeakBusinessStep \/ StrongCasualStep \/ MediumCasualStep \/ WeakCasualStep
    \/ ShortBoostStep \/ Decide

SpecClassify == InitClassify /\ [][NextClassify]_vars

----------------------------------------------------------------------------
\* reclassify_dataset.  A mapping {email_text: label} is the sequence of its
\* entries in insertion order, with distinct keys; 1 = business, 0 = casual.

Labels == {0, 1}

\* Tenths 0..10 are the thresholds 0.0 to 1.0; 11 is a threshold above 1.0.
Thresholds == 0..11

\* The keys of the datasets: texts scoring 0, 2.5, 1.5, -2.0, 5.5, 2.0 and -0.5.
DatasetTexts ==
    {<<>>, <<"lol">>, <<"hey", "yeah">>, <<"contract">>,
     <<"subject:", "fwd:", "fwd:", "lol">>, <<"lol">> \o Pad(ShortWordLimit), <<"regards">>}

Entry(t, l) == [text |-> t, label |-> l]

KeySet(d) == {d[i].text : i \in DOMAIN d}

Datasets ==
    {d \in UNION {[1..n -> {Entry(t, l) : t \in DatasetTexts, l \in Labels}] :
                    n \in 0..MaxEntries} :
        \A i \in DOMAIN d : \A j \in DOMAIN d : d[i].text = d[j].text => i = j}

\* Mutant: a confidence equal to the threshold does not flip.
FlipsStrict(r, th) == r.is_casual /\ r.confidence > th

\* if is_casual and confidence >= threshold
Flips(r, th) == r.is_casual /\ r.confidence >= th

\* Mutant: the pass relabels in both directions.
NewLabelSymmetric(t, label, th) ==
    LET r == classify_email(t)
    IN  IF r.confidence >= th THEN (IF r.is_casual THEN 0 ELSE 1) ELSE label

\* The label the loop body stores for one entry.
NewLabel(t, label, th) ==
    IF label = 1
    THEN IF Flips(classify_email(t), th) THEN 0 ELSE label
    ELSE label

\* Mutant: the entry is stored under the truncated text, email_text[:3].
StoreTruncated(d, t, label) == Append(d, Entry(SubSeq(t, 1, Min(Len(t), 3)), label))

\* updated[email_text] = ...: the keys of the input are distinct, so each is new.
Store(d, t, label) == Append(d, Entry(t, label))

\* sum(1 for v in emails_and_labels.values() if v == 1)
TotalBusiness(d) == Cardinality({i \in DOMAIN d : d[i].label = 1})

InitReclassify ==
    /\ emails_and_labels \in Datasets
    /\ threshold \in Thresholds
    /\ verbose \in BOOLEAN
    /\ updated = <<>> /\ flipped_count = 0 /\ rc_i = 0
    /\ rc_pc = "loop"
    /\ ClassifyIdle /\ StripIdle /\ ExtractIdle /\ FetchIdle /\ RemoteIdle /\ OthersIdle

\* One iteration of "for email_text, label in emails_and_labels.items()".
RcIterate ==
    /\ rc_pc = "loop" /\ rc_i < Len(emails_and_labels)
    /\ LET e == emails_and_labels[rc_i + 1]
           new == NewLabel(e.text, e.label, threshold)
       IN  /\ updated' = Store(updated, e.text, new)
           /\ flipped_count' = IF e.label = 1 /\ Flips(classify_email(e.text), threshold)
                               THEN flipped_count + 1 ELSE flipped_count
    /\ rc_i' = rc_i + 1
    /\ UNCHANGED <<emails_and_labels, threshold, verbose, rc_pc, cvars, svars, nvars>>

\* if verbose: ... flipped_count/total_business ...; return updated
RcSummary ==
    /\ rc_pc = "loop" /\ rc_i = Len(emails_and_labels) /\ verbose
    /\ rc_pc' = IF TotalBusiness(emails_and_labels) = 0 THEN "raised" ELSE "returned"
    /\ UNCHANGED <<emails_and_labels, threshold, verbose, updated, flipped_count, rc_i,
                   cvars, svars, nvars>>

\* return updated, verbose off
RcReturn ==
    /\ rc_pc = "loop" /\ rc_i = Len(emails_and_labels) /\ ~verbose
    /\ rc_pc' = "returned"
    /\ UNCHANGED <<emails_and_labels, threshold, verbose, updated, flipped_count, rc_i,
                   cvars, svars, nvars>>

NextReclassify == RcIterate \/ RcSummary \/ RcReturn

SpecReclassify == InitReclassify /\ [][NextReclassify]_vars

----------------------------------------------------------------------------
\* A caller that calls classify_email again and again (the loop of
\* test_classifier), while a reclassify_dataset pass goes on.  The locals of
\* classify_email are the variables of the statements above, so what one
\* call leaves in them is there when the next call begins.

\* Number of classify_email calls the caller makes.
MaxCalls == 2

\* threshold: float = 0.5
DefaultThreshold == 5

SessionInputs == {StrInput(t) : t \in DatasetTexts} \cup {NoneInput}

SessionDatasets == {d \in Datasets : Len(d) <= 1}

InitSession ==
    /\ email_text \in SessionInputs
    /\ pc = "call"
    /\ text = <<>> /\ score = 0 /\ matched = <<>>
    /\ is_casual = FALSE /\ confidence = 0
    /\ calls = <<>>
    /\ emails_and_labels \in SessionDatasets
    /\ threshold = DefaultThreshold
    /\ verbose \in BOOLEAN
    /\ updated = <<>> /\ flipped_count = 0 /\ rc_i = 0
    /\ rc_pc = "loop"
    /\ StripIdle /\ ExtractIdle /\ FetchIdle /\ RemoteIdle /\ AnalyzeIdle /\ WorkersIdle
    /\ ImapIdle /\ UiIdle

\* is_casual, conf, patterns = classify_email(email); the next iteration
\* calls again.  Each call is recorded with what it was given, what it
\* returned and how far the reclassification pass was.
SessionReturn ==
    /\ pc = "done" /\ Len(calls) < MaxCalls
    /\ calls' = Append(calls, [input |-> email_text, is_casual |-> is_casual,
                               confidence |-> confidence, pass |-> rc_i])
    /\ \/ /\ Len(calls') < MaxCalls
          /\ email_text' \in SessionInputs
          /\ pc' = "call"
       \/ /\ Len(calls') = MaxCalls
          /\ email_text' = email_text
          /\ pc' = "idle"
    /\ UNCHANGED <<text, score, matched, is_casual, confidence, rvars, svars,
                   xvars, fvars, qvars, avars, wvars, lvars>>

NextSession == NextClassify \/ NextReclassify \/ SessionReturn

SpecSession == InitSession /\ [][NextSession]_vars

----------------------------------------------------------------------------
\* analyze_dataset, run on the mapping a reclassify_dataset pass without
\* summary is given.
\* results maps each threshold, in tenths, to its count.

\* thresholds = [0.3, 0.4, 0.5, 0.6, 0.7, 0.8]
AnalysisThresholds == {3, 4, 5, 6, 7, 8}

IsBusiness(entry) == entry.label = 1

\* business_emails = [(text, label) for ... if label == 1]
BusinessEmails(d) == SelectSeq(d, IsBusiness)

\* Mutant: a confidence equal to the threshold is not counted.
FlaggedAbove(r, t) == r.is_casual /\ r.confidence > t

\* if is_casual: ... if confidence >= t
Flagged(r, t) == r.is_casual /\ r.confidence >= t

InitAnalyze ==
    /\ emails_and_labels \in Datasets
    /\ threshold \in AnalysisThresholds
    /\ verbose = FALSE
    /\ updated = <<>> /\ flipped_count = 0 /\ rc_i = 0
    /\ rc_pc = "loop"
    /\ results = [t \in AnalysisThresholds |-> 0]
    /\ an_i = 0 /\ an_pc = "loop"
    /\ ClassifyIdle /\ StripIdle /\ ExtractIdle /\ FetchIdle /\ RemoteIdle
    /\ SessionIdle /\ WorkersIdle /\ ImapIdle /\ UiIdle

\* One iteration of "for email_text, _ in business_emails".
AnIterate ==
    /\ an_pc = "loop" /\ an_i < Len(BusinessEmails(emails_and_labels))
    /\ \E r \in {classify_email(BusinessEmails(emails_and_labels)[an_i + 1].text)} :
           results' = [t \in AnalysisThresholds |->
                          IF Flagged(r, t) THEN results[t] + 1 ELSE results[t]]
    /\ an_i' = an_i + 1
    /\ UNCHANGED <<an_pc, cvars, rvars, svars, xvars, fvars, qvars, hvars, wvars, lvars>>

\* The report is printed, the percentage being 0 without business emails;
\* return results
AnReturn ==
    /\ an_pc = "loop" /\ an_i = Len(BusinessEmails(emails_and_labels))
    /\ an_pc' = "returned"
    /\ UNCHANGED <<results, an_i, cvars, rvars, svars, xvars, fvars, qvars, hvars, wvars, lvars>>

NextAnalyze == AnIterate \/ AnReturn \/ RcIterate \/ RcReturn

SpecAnalyze == InitAnalyze /\ [][NextAnalyze]_vars

----------------------------------------------------------------------------
\* strip_replies.  A line is a sequence of atoms, the concrete line being
\* their concatenation; a body is the sequence of lines splitlines() gives;
\* a returned string is the sequence of its lines, "" being <<>>.

OriginalMessage == "-----Original Message-----"

Atoms == {" ", ">", "a", "On", "wrote:", "From:", OriginalMessage}

Lines ==
    {<<>>, <<" ">>, <<"a">>, <<" ", "a">>, <<"a", " ">>, <<">", "a">>,
     <<" ", ">", "a">>, <<"a", ">">>, <<"On", " ", "a", " ", "wrote:">>,
     <<"On", " ", "a">>, <<"From:", " ", "a">>, <<"From:">>, <<OriginalMessage>>}

Bodies == UNION {[1..n -> Lines] : n \in 0..MaxLines}

LeadingSpaces(l) == Cardinality({k \in DOMAIN l : \A m \in 1..k : l[m] = " "})

TrailingSpaces(l) == Cardinality({k \in DOMAIN l : \A m \in k..Len(l) : l[m] = " "})

\* line.lstrip()
LStrip(l) == SubSeq(l, LeadingSpaces(l) + 1, Len(l))

\* line.rstrip()
RStrip(l) == SubSeq(l, 1, Len(l) - TrailingSpaces(l))

\* not line.strip()
IsBlank(l) == \A i \in DOMAIN l : l[i] = " "

\* ^\s*On .+ wrote:\s*$
IsOnWrote(l) ==
    LET c == RStrip(LStrip(l))
    IN  /\ Len(c) >= 5
        /\ c[1] = "On" /\ c[2] = " "
        /\ c[Len(c) - 1] = " " /\ c[Len(c)] = "wrote:"

\* ^\s*From:\s+.+$
IsFromHeader(l) ==
    LET i == LeadingSpaces(l)
    IN  Len(l) >= i + 3 /\ l[i + 1] = "From:" /\ l[i + 2] = " "

\* ^\s*-{2,}\s*Original Message\s*-{2,}\s*$ and ^\s*-----Original Message-----\s*$
IsOriginalMessage(l) == RStrip(LStrip(l)) = <<OriginalMessage>>

\* any(p.match(line) for p in reply_header_patterns); the Sent:, To: and
\* Subject: patterns match no line over Atoms.
looks_like_reply_header(l) == IsOnWrote(l) \/ IsOriginalMessage(l) \/ IsFromHeader(l)

\* Mutant: the quote marker is looked for without the left-trim.
IsQuotedNoLStrip(l) == l # <<>> /\ l[1] = ">"

\* line.lstrip().startswith(">")
IsQuoted(l) == LStrip(l) # <<>> /\ LStrip(l)[1] = ">"

\* Mutant: a reply header is skipped like a quoted line and the loop goes on.
LineActionNoBreak(l) ==
    IF looks_like_reply_header(l) \/ IsQuoted(l) THEN "continue" ELSE "append"

\* What the loop body does with a line.
LineAction(l) ==
    IF looks_like_reply_header(l) THEN "break"
    ELSE IF IsQuoted(l) THEN "continue"
    ELSE "append"

\* "\n".join(kept).strip()
StripJoined(ls) ==
    LET lead == Cardinality({k \in DOMAIN ls : \A m \in 1..k : IsBlank(ls[m])})
        a == SubSeq(ls, lead + 1, Len(ls))
        trail == Cardinality({k \in DOMAIN a : \A m \in k..Len(a) : IsBlank(a[m])})
        b == SubSeq(a, 1, Len(a) - trail)
    IN  [i \in 1..Len(b) |->
            LET x == IF i = 1 THEN LStrip(b[i]) ELSE b[i]
            IN  IF i = Len(b) THEN RStrip(x) ELSE x]

\* The for loop over the remaining lines ls, kept being k so far.
RECURSIVE Collect(_, _)
Collect(ls, k) ==
    IF ls = <<>> THEN k
    ELSE LET a == LineAction(Head(ls))
         IN  IF a = "break" THEN k
             ELSE IF a = "continue" THEN Collect(Tail(ls), k)
             ELSE Collect(Tail(ls), Append(k, Head(ls)))

\* while kept and not kept[-1].strip(): kept.pop()
RECURSIVE PopBlank(_)
PopBlank(k) ==
    IF k # <<>> /\ IsBlank(k[Len(k)]) THEN PopBlank(SubSeq(k, 1, Len(k) - 1)) ELSE k

\* The value strip_replies returns on a body; the string it returns is read
\* as a body again through splitlines().
strip_replies(b) ==
    IF b = <<>> THEN <<>> ELSE StripJoined(PopBlank(Collect(b, <<>>)))

InitStrip ==
    /\ body \in Bodies
    /\ sr_i = 0 /\ kept = <<>> /\ sr_state = "COLLECTING"
    /\ sr_pc = "call" /\ sr_result = <<>>
    /\ ClassifyIdle /\ ReclassifyIdle /\ ExtractIdle /\ FetchIdle /\ RemoteIdle /\ OthersIdle

\* if not email_text: return ""
SrEmpty ==
    /\ sr_pc = "call" /\ body = <<>>
    /\ sr_result' = <<>> /\ sr_pc' = "done"
    /\ UNCHANGED <<body, sr_i, kept, sr_state, cvars, rvars, nvars>>

\* lines = email_text.splitlines(); kept = []
SrSplit ==
    /\ sr_pc = "call" /\ body # <<>>
    /\ sr_pc' = "loop"
    /\ UNCHANGED <<body, sr_i, kept, sr_state, sr_result, cvars, rvars, nvars>>

\* if looks_like_reply_header(line): break
SrBreak ==
    /\ sr_pc = "loop" /\ sr_i < Len(body)
    /\ LineAction(body[sr_i + 1]) = "break"
    /\ sr_state' = "STOPPED" /\ sr_pc' = "trim"
    /\ UNCHANGED <<body, sr_i, kept, sr_result, cvars, rvars, nvars>>

\* Mutant: a quoted line ends the collecting like a reply header.
SrContinueStops ==
    /\ sr_pc = "loop" /\ sr_i < Len(body)
    /\ LineAction(body[sr_i + 1]) = "continue"
    /\ sr_state' = "STOPPED" /\ sr_pc' = "trim"
    /\ UNCHANGED <<body, sr_i, kept, sr_result, cvars, rvars, nvars>>

\* if line.lstrip().startswith(">"): continue
SrContinue ==
    /\ sr_pc = "loop" /\ sr_i < Len(body)
    /\ LineAction(body[sr_i + 1]) = "continue"
    /\ sr_i' = sr_i + 1
    /\ UNCHANGED <<body, kept, sr_state, sr_pc, sr_result, cvars, rvars, nvars>>

\* kept.append(line)
SrAppend ==
    /\ sr_pc = "loop" /\ sr_i < Len(body)
    /\ LineAction(body[sr_i + 1]) = "append"
    /\ kept' = Append(kept, body[sr_i + 1])
    /\ sr_i' = sr_i + 1
    /\ UNCHANGED <<body, sr_state, sr_pc, sr_result, cvars, rvars, nvars>>

\* The for loop runs out of lines.
SrExhausted ==
    /\ sr_pc = "loop" /\ sr_i = Len(body)
    /\ sr_pc' = "trim"
    /\ UNCHANGED <<body, sr_i, kept, sr_state, sr_result, cvars, rvars, nvars>>

\* while kept and not kept[-1].strip(): kept.pop()
SrPop ==
    /\ sr_pc = "trim" /\ kept # <<>> /\ IsBlank(kept[Len(kept)])
    /\ kept' = SubSeq(kept, 1, Len(kept) - 1)
    /\ UNCHANGED <<body, sr_i, sr_state, sr_pc, sr_result, cvars, rvars, nvars>>

\* return "\n".join(kept).strip()
SrReturn ==
    /\ sr_pc = "trim" /\ ~(kept # <<>> /\ IsBlank(kept[Len(kept)]))
    /\ sr_result' = StripJoined(kept)
    /\ sr_pc' = "done"
    /\ UNCHANGED <<body, sr_i, kept, sr_state, cvars, rvars, nvars>>

NextStrip ==
    \/ SrEmpty \/ SrSplit \/ SrBreak \/ SrContinue \/ SrAppend \/ SrExhausted
    \/ SrPop \/ SrReturn

SpecStrip == InitStrip /\ [][NextStrip]_vars

----------------------------------------------------------------------------
\* Payload texts of message parts.  A payload text is a sequence of atoms,
\* the concrete string being their concatenation; "" is <<>>.

TextAtoms == {"a", "b", " ", "\n", "<", ">", "/", "script", "&lt;", "&gt;", "&amp;"}

\* \s
IsSpace(c) == c \in {" ", "\n"}

\* text.strip()
StripText(t) ==
    LET lead == Cardinality({k \in DOMAIN t : \A m \in 1..k : IsSpace(t[m])})
        a == SubSeq(t, lead + 1, Len(t))
        trail == Cardinality({k \in DOMAIN a : \A m \in k..Len(a) : IsSpace(a[m])})
    IN  SubSeq(a, 1, Len(a) - trail)

\* "\n".join(parts)
RECURSIVE JoinParts(_)
JoinParts(ps) ==
    IF ps = <<>> THEN <<>>
    ELSE IF Len(ps) = 1 THEN ps[1]
    ELSE ps[1] \o <<"\n">> \o JoinParts(Tail(ps))

\* The first index from `from` on where t holds c, 0 if there is none.
FirstIndex(t, from, c) ==
    LET S == {j \in from..Len(t) : t[j] = c}
    IN  IF S = {} THEN 0 ELSE Lowest(S)

\* </script> at index k of t
IsCloseScript(t, k) ==
    /\ k + 3 <= Len(t)
    /\ t[k] = "<" /\ t[k + 1] = "/" /\ t[k + 2] = "script" /\ t[k + 3] = ">"

\* (?is)<(script|style).*?>.*?(</\1>) matched at the start of t: the index
\* of the end of the match, 0 without a match.
ScriptMatchEnd(t) ==
    IF ~(Len(t) >= 2 /\ t[1] = "<" /\ t[2] = "script") THEN 0
    ELSE LET j == FirstIndex(t, 3, ">")
             K == {k \in (j + 1)..Len(t) : IsCloseScript(t, k)}
         IN  IF j = 0 \/ K = {} THEN 0 ELSE Lowest(K) + 3

\* re.sub(r"(?is)<(script|style).*?>.*?(</\1>)", "", html)
RECURSIVE RemoveScripts(_)
RemoveScripts(t) ==
    IF t = <<>> THEN <<>>
    ELSE IF ScriptMatchEnd(t) > 0
         THEN RemoveScripts(SubSeq(t, ScriptMatchEnd(t) + 1, Len(t)))
         ELSE <<Head(t)>> \o RemoveScripts(Tail(t))

\* Mutant: only tags that do not start with a slash are matched.
TagMatchEndOpeningOnly(t) ==
    IF t # <<>> /\ t[1] = "<" /\ FirstIndex(t, 2, ">") >= 3 /\ t[2] # "/"
    THEN FirstIndex(t, 2, ">") ELSE 0

\* <[^>]+> matched at the start of t: the index of the end of the match, 0
\* without a match.
TagMatchEnd(t) ==
    IF t # <<>> /\ t[1] = "<" /\ FirstIndex(t, 2, ">") >= 3
    THEN FirstIndex(t, 2, ">") ELSE 0

\* re.sub(r"<[^>]+>", "", html)
RECURSIVE RemoveTags(_)
RemoveTags(t) ==
    IF t = <<>> THEN <<>>
    ELSE IF TagMatchEnd(t) > 0
         THEN RemoveTags(SubSeq(t, TagMatchEnd(t) + 1, Len(t)))
         ELSE <<Head(t)>> \o RemoveTags(Tail(t))

\* .replace("&amp;", "&").replace("&lt;", "<").replace("&gt;", ">")
Unescape(c) ==
    CASE c = "&amp;" -> "&"
      [] c = "&lt;" -> "<"
      [] c = "&gt;" -> ">"
      [] OTHER -> c

\* re.sub(r"\s+", " ", text)
RECURSIVE CollapseSpaces(_)
CollapseSpaces(t) ==
    IF t = <<>> THEN <<>>
    ELSE IF IsSpace(t[1])
         THEN IF Len(t) >= 2 /\ IsSpace(t[2])
              THEN CollapseSpaces(Tail(t))
              ELSE <<" ">> \o CollapseSpaces(Tail(t))
         ELSE <<t[1]>> \o CollapseSpaces(Tail(t))

\* _html_to_text(html)
html_to_text(html) ==
    LET tags == RemoveTags(RemoveScripts(html))
        unescaped == [i \in DOMAIN tags |-> Unescape(tags[i])]
    IN  StripText(CollapseSpaces(unescaped))

----------------------------------------------------------------------------
\* Message part trees.  A part is a record that holds only the keys the
\* message reports: mimeType, disposition (the Content-Disposition header),
\* filename, body (with data, attachmentId and size) and parts.  The data of
\* a body is the encoded payload: ok tells whether decoding it succeeds,
\* text is the decoded text (the raw payload when decoding fails).

Data(t) == [ok |-> TRUE, text |-> t]

BadData == [ok |-> FALSE, text |-> <<"b">>]

Leaves ==
    {[mimeType |-> "text/plain", body |-> [data |-> Data(<<"a">>), size |-> 1]],
     [mimeType |-> "text/plain", body |-> [data |-> Data(<<" ", "b">>), size |-> 2]],
     [mimeType |-> "text/plain", body |-> [data |-> BadData, size |-> 1]],
     [mimeType |-> "text/plain", body |-> [size |-> 0]],
     [mimeType |-> "text/html",
      body |-> [data |-> Data(<<"<", "b", ">", "a", "<", "/", "b", ">">>), size |-> 8]],
     [mimeType |-> "text/html", body |-> [data |-> Data(<<"a", "&lt;", "b">>), size |-> 3]],
     [mimeType |-> "text/html", body |-> [data |-> Data(<<"a", " ", "<", " ", "b">>), size |-> 5]],
     [mimeType |-> "text/html",
      body |-> [data |-> Data(<<"<", "script", ">", "a", "<", "/", "script", ">", "b">>),
                size |-> 18]],
     [mimeType |-> "text/plain", disposition |-> "attachment", filename |-> "",
      body |-> [data |-> Data(<<"b">>), size |-> 1]],
     [mimeType |-> "image/png", disposition |-> "inline", filename |-> "",
      body |-> [data |-> Data(<<"a">>), size |-> 1]],
     [mimeType |-> "application/pdf", disposition |-> "attachment", filename |-> "f.pdf",
      body |-> [attachmentId |-> "id1", size |-> 7]],
     [filename |-> "g", body |-> [attachmentId |-> "id2"]],
     [mimeType |-> "image/png", filename |-> "h.png", body |-> [size |-> 7]],
     [mimeType |-> "application/pdf", filename |-> "", body |-> [attachmentId |-> "id3", size |-> 7]]}

Container(ps) == [mimeType |-> "multipart/mixed", body |-> [size |-> 0], parts |-> ps]

LeafSeqs == UNION {[1..n -> Leaves] : n \in 0..MaxParts}

\* A single part, a multipart message of leaves, and one whose first part
\* is itself multipart, of MaxParts leaves at most.
Payloads ==
    Leaves
    \cup {Container(ps) : ps \in LeafSeqs}
    \cup UNION {{Container(<<Container(ps)>> \o qs) :
                     ps \in [1..ij[1] -> Leaves], qs \in [1..ij[2] -> Leaves]} :
                 ij \in {x \in (0..MaxParts) \X (0..MaxParts) : x[1] + x[2] <= MaxParts}}

\* part.get(key, default)
Get(d, key, default) == IF key \in DOMAIN d THEN d[key] ELSE default

\* (part.get("mimeType") or "").lower()
MimeOf(part) == Get(part, "mimeType", "")

\* part.get("parts", []) or []
Children(part) == Get(part, "parts", <<>>)

\* body = part.get("body", {}) or {}; a body without the keys the code
\* reads is the same to it as {"size": 0}
BodyOf(part) == Get(part, "body", [size |-> 0])

\* data = body.get("data"); if data:
HasData(part) == "data" \in DOMAIN BodyOf(part)

\* _decode_base64(data)
decode_base64(data) == IF data.ok THEN data.text ELSE <<>>

----------------------------------------------------------------------------
\* _extract_body_from_payload and _extract_attachments on one payload, in
\* the order fetch_recent_emails calls them.  pending is the parts the
\* recursion has still to walk, the next one first.

\* Mutant: the children are walked after the parts already pending.
NextPendingBreadthFirst(part, rest) == rest \o Children(part)

\* walk(part) ... for child in part.get("parts", []) or []: walk(child)
NextPending(part, rest) == Children(part) \o rest

\* Mutant: the HTML parts are returned whenever there are any.
BodyResultHtmlFirst(plain, html) ==
    IF html # <<>> THEN StripText(JoinParts([i \in DOMAIN html |-> html_to_text(html[i])]))
    ELSE IF plain # <<>> THEN StripText(JoinParts(plain))
    ELSE <<>>

\* if plain_parts: ... if html_parts: ... return ""
BodyResult(plain, html) ==
    IF plain # <<>> THEN StripText(JoinParts(plain))
    ELSE IF html # <<>>
         THEN StripText(JoinParts([i \in DOMAIN html |-> html_to_text(html[i])]))
    ELSE <<>>

\* Mutant: a filename or an attachmentId is enough.
QualifiesEither(part) ==
    \/ Get(BodyOf(part), "attachmentId", "") # ""
    \/ Get(part, "filename", "") # ""

\* if attachment_id and filename:
Qualifies(part) ==
    /\ Get(BodyOf(part), "attachmentId", "") # ""
    /\ Get(part, "filename", "") # ""

DefaultMimeType == "application/octet-stream"

\* The dict appended for a part.
Attachment(part) ==
    [filename |-> Get(part, "filename", ""),
     mimeType |-> Get(part, "mimeType", DefaultMimeType),
     size |-> Get(BodyOf(part), "size", 0),
     attachmentId |-> Get(BodyOf(part), "attachmentId", "")]

InitExtract ==
    /\ payload \in Payloads
    /\ ex_pc = "body" /\ pending = <<payload>>
    /\ plain_parts = <<>> /\ html_parts = <<>> /\ body_raw = <<>>
    /\ attachments = <<>>
    /\ ClassifyIdle /\ ReclassifyIdle /\ StripIdle /\ FetchIdle /\ RemoteIdle /\ OthersIdle

\* if data: decoded = _decode_base64(data); if mime == "text/plain": ...
BxPlain ==
    /\ ex_pc = "body" /\ pending # <<>>
    /\ LET part == Head(pending)
       IN  /\ HasData(part) /\ MimeOf(part) = "text/plain"
           /\ plain_parts' = Append(plain_parts, decode_base64(BodyOf(part).data))
           /\ pending' = NextPending(part, Tail(pending))
    /\ UNCHANGED <<payload, ex_pc, html_parts, body_raw, attachments, cvars, rvars, svars, fvars, qvars, ovars>>

\* elif mime == "text/html": html_parts.append(decoded)
BxHtml ==
    /\ ex_pc = "body" /\ pending # <<>>
    /\ LET part == Head(pending)
       IN  /\ HasData(part) /\ MimeOf(part) = "text/html"
           /\ html_parts' = Append(html_parts, decode_base64(BodyOf(part).data))
           /\ pending' = NextPending(part, Tail(pending))
    /\ UNCHANGED <<payload, ex_pc, plain_parts, body_raw, attachments, cvars, rvars, svars, fvars, qvars, ovars>>

\* A part without data, or of another type: only its children are walked.
BxOther ==
    /\ ex_pc = "body" /\ pending # <<>>
    /\ LET part == Head(pending)
       IN  /\ ~(HasData(part) /\ MimeOf(part) \in {"text/plain", "text/html"})
           /\ pending' = NextPending(part, Tail(pending))
    /\ UNCHANGED <<payload, ex_pc, plain_parts, html_parts, body_raw, attachments,
                   cvars, rvars, svars, fvars, qvars, ovars>>

\* walk(payload) has returned: the body is built, _extract_attachments is
\* called on the same payload.
BxReturn ==
    /\ ex_pc = "body" /\ pending = <<>>
    /\ body_raw' = BodyResult(plain_parts, html_parts)
    /\ ex_pc' = "attachments" /\ pending' = <<payload>>
    /\ UNCHANGED <<payload, plain_parts, html_parts, attachments, cvars, rvars, svars, fvars, qvars, ovars>>

\* if attachment_id and filename: attachments.append({...})
AxAppend ==
    /\ ex_pc = "attachments" /\ pending # <<>>
    /\ LET part == Head(pending)
       IN  /\ Qualifies(part)
           /\ attachments' = Append(attachments, Attachment(part))
           /\ pending' = NextPending(part, Tail(pending))
    /\ UNCHANGED <<payload, ex_pc, plain_parts, html_parts, body_raw, cvars, rvars, svars, fvars, qvars, ovars>>

\* A part that is no attachment: only its children are walked.
AxOther ==
    /\ ex_pc = "attachments" /\ pending # <<>>
    /\ LET part == Head(pending)
       IN  /\ ~Qualifies(part)
           /\ pending' = NextPending(part, Tail(pending))
    /\ UNCHANGED <<payload, ex_pc, plain_parts, html_parts, body_raw, attachments,
                   cvars, rvars, svars, fvars, qvars, ovars>>

\* return attachments
AxReturn ==
    /\ ex_pc = "attachments" /\ pending = <<>>
    /\ ex_pc' = "done"
    /\ UNCHANGED <<payload, pending, plain_parts, html_parts, body_raw, attachments,
                   cvars, rvars, svars, fvars, qvars, ovars>>

NextExtract == BxPlain \/ BxHtml \/ BxOther \/ BxReturn \/ AxAppend \/ AxOther \/ AxReturn

SpecExtract == InitExtract /\ [][NextExtract]_vars

----------------------------------------------------------------------------
\* _get_body on a parsed message (no_timing_read_mail.py).  The message is
\* the same kind of part tree; pending is what msg.walk() has still to
\* yield, the next part first.

\* (part.get_content_type() or "").lower(): text/plain when not reported
CTypeOf(part) == Get(part, "mimeType", "text/plain")

\* (part.get("Content-Disposition") or "").lower()
DispOf(part) == Get(part, "disposition", "")

ImageTypes == {"image/png"}

ApplicationTypes == {"application/pdf", DefaultMimeType}

\* Mutant: only the parts of an image type are skipped.
SkippedImagesOnly(part) == CTypeOf(part) \in ImageTypes

\* "attachment" in disp or ctype.startswith("image/") or
\* ctype.startswith("application/")
Skipped(part) ==
    \/ DispOf(part) = "attachment"
    \/ CTypeOf(part) \in ImageTypes
    \/ CTypeOf(part) \in ApplicationTypes

\* payload.decode(charset, errors="replace") raises
DecodeRaises(part) == HasData(part) /\ ~BodyOf(part).data.ok

\* The text of a part whose payload decodes; b"" without a payload.  For a
\* payload that does not decode this is msg.get_payload(), the raw text.
PayloadText(part) == IF HasData(part) THEN BodyOf(part).data.text ELSE <<>>

\* "<html" in text.lower(); no payload text of the model holds it
HoldsHtmlTag(t) == \E i \in DOMAIN t : t[i] = "<" /\ i < Len(t) /\ t[i + 1] = "html"

\* ctype == "text/html" or "<html" in text.lower()
SingleIsHtml(part) == CTypeOf(part) = "text/html" \/ HoldsHtmlTag(PayloadText(part))

InitGetBody ==
    /\ payload \in Payloads
    /\ ex_pc = "gb_call" /\ pending = <<>>
    /\ plain_parts = <<>> /\ html_parts = <<>> /\ body_raw = <<>>
    /\ attachments = <<>>
    /\ ClassifyIdle /\ ReclassifyIdle /\ StripIdle /\ FetchIdle /\ RemoteIdle /\ OthersIdle

\* if msg.is_multipart(): ... for part in msg.walk():
GbMultipart ==
    /\ ex_pc = "gb_call" /\ "parts" \in DOMAIN payload
    /\ ex_pc' = "gb_walk" /\ pending' = <<payload>>
    /\ UNCHANGED <<payload, plain_parts, html_parts, body_raw, attachments,
                   cvars, rvars, svars, fvars, qvars, ovars>>

\* Single-part message: return _html_to_text(text)
GbSingleHtml ==
    /\ ex_pc = "gb_call" /\ "parts" \notin DOMAIN payload
    /\ SingleIsHtml(payload)
    /\ body_raw' = html_to_text(PayloadText(payload))
    /\ ex_pc' = "gb_done"
    /\ UNCHANGED <<payload, pending, plain_parts, html_parts, attachments,
                   cvars, rvars, svars, fvars, qvars, ovars>>

\* Single-part message: return text.strip()
GbSingleText ==
    /\ ex_pc = "gb_call" /\ "parts" \notin DOMAIN payload
    /\ ~SingleIsHtml(payload)
    /\ body_raw' = StripText(PayloadText(payload))
    /\ ex_pc' = "gb_done"
    /\ UNCHANGED <<payload, pending, plain_parts, html_parts, attachments,
                   cvars, rvars, svars, fvars, qvars, ovars>>

\* Skip attachments and inline images: continue
GbSkip ==
    /\ ex_pc = "gb_walk" /\ pending # <<>>
    /\ Skipped(Head(pending))
    /\ pending' = NextPending(Head(pending), Tail(pending))
    /\ UNCHANGED <<payload, ex_pc, plain_parts, html_parts, body_raw, attachments,
                   cvars, rvars, svars, fvars, qvars, ovars>>

\* except Exception: continue
GbDecodeFail ==
    /\ ex_pc = "gb_walk" /\ pending # <<>>
    /\ ~Skipped(Head(pending)) /\ DecodeRaises(Head(pending))
    /\ pending' = NextPending(Head(pending), Tail(pending))
    /\ UNCHANGED <<payload, ex_pc, plain_parts, html_parts, body_raw, attachments,
                   cvars, rvars, svars, fvars, qvars, ovars>>

\* if ctype == "text/plain": plain_parts.append(text)
GbPlain ==
    /\ ex_pc = "gb_walk" /\ pending # <<>>
    /\ LET part == Head(pending)
       IN  /\ ~Skipped(part) /\ ~DecodeRaises(part) /\ CTypeOf(part) = "text/plain"
           /\ plain_parts' = Append(plain_parts, PayloadText(part))
           /\ pending' = NextPending(part, Tail(pending))
    /\ UNCHANGED <<payload, ex_pc, html_parts, body_raw, attachments, cvars, rvars, svars, fvars, qvars, ovars>>

\* elif ctype == "text/html": html_parts.append(text)
GbHtml ==
    /\ ex_pc = "gb_walk" /\ pending # <<>>
    /\ LET part == Head(pending)
       IN  /\ ~Skipped(part) /\ ~DecodeRaises(part) /\ CTypeOf(part) = "text/html"
           /\ html_parts' = Append(html_parts, PayloadText(part))
           /\ pending' = NextPending(part, Tail(pending))
    /\ UNCHANGED <<payload, ex_pc, plain_parts, body_raw, attachments, cvars, rvars, svars, fvars, qvars, ovars>>

\* A part of another type, a multipart container among them.
GbOther ==
    /\ ex_pc = "gb_walk" /\ pending # <<>>
    /\ LET part == Head(pending)
       IN  /\ ~Skipped(part) /\ ~DecodeRaises(part)
           /\ CTypeOf(part) \notin {"text/plain", "text/html"}
           /\ pending' = NextPending(part, Tail(pending))
    /\ UNCHANGED <<payload, ex_pc, plain_parts, html_parts, body_raw, attachments,
                   cvars, rvars, svars, fvars, qvars, ovars>>

\* if plain_parts: ... if html_parts: ... return ""
GbReturn ==
    /\ ex_pc = "gb_walk" /\ pending = <<>>
    /\ body_raw' = BodyResult(plain_parts, html_parts)
    /\ ex_pc' = "gb_done"
    /\ UNCHANGED <<payload, pending, plain_parts, html_parts, attachments,
                   cvars, rvars, svars, fvars, qvars, ovars>>

NextGetBody ==
    \/ GbMultipart \/ GbSingleHtml \/ GbSingleText
    \/ GbSkip \/ GbDecodeFail \/ GbPlain \/ GbHtml \/ GbOther \/ GbReturn

SpecGetBody == InitGetBody /\ [][NextGetBody]_vars

\* Either extractor on a message.
InitBody == InitExtract \/ InitGetBody

NextBody == NextExtract \/ NextGetBody

SpecBody == InitBody /\ [][NextBody]_vars

----------------------------------------------------------------------------
\* The extractors as functions of a message, for the callers that use them
\* in one step; each follows the walk above part by part.

RECURSIVE WalkBody(_, _, _)
WalkBody(todo, plain, html) ==
    IF todo = <<>> THEN [plain |-> plain, html |-> html]
    ELSE LET part == Head(todo)
             rest == NextPending(part, Tail(todo))
         IN  IF HasData(part) /\ MimeOf(part) = "text/plain"
             THEN WalkBody(rest, Append(plain, decode_base64(BodyOf(part).data)), html)
             ELSE IF HasData(part) /\ MimeOf(part) = "text/html"
             THEN WalkBody(rest, plain, Append(html, decode_base64(BodyOf(part).data)))
             ELSE WalkBody(rest, plain, html)

\* _extract_body_from_payload(payload)
extract_body_from_payload(p) ==
    LET w == WalkBody(<<p>>, <<>>, <<>>) IN BodyResult(w.plain, w.html)

RECURSIVE WalkAttachments(_, _)
WalkAttachments(todo, found) ==
    IF todo = <<>> THEN found
    ELSE LET part == Head(todo)
             rest == NextPending(part, Tail(todo))
         IN  IF Qualifies(part) THEN WalkAttachments(rest, Append(found, Attachment(part)))
             ELSE WalkAttachments(rest, found)

\* _extract_attachments(payload)
extract_attachments(p) == WalkAttachments(<<p>>, <<>>)

RECURSIVE WalkMessage(_, _, _)
WalkMessage(todo, plain, html) ==
    IF todo = <<>> THEN [plain |-> plain, html |-> html]
    ELSE LET part == Head(todo)
             rest == NextPending(part, Tail(todo))
         IN  IF Skipped(part) \/ DecodeRaises(part) THEN WalkMessage(rest, plain, html)
             ELSE IF CTypeOf(part) = "text/plain"
             THEN WalkMessage(rest, Append(plain, PayloadText(part)), html)
             ELSE IF CTypeOf(part) = "text/html"
             THEN WalkMessage(rest, plain, Append(html, PayloadText(part)))
             ELSE WalkMessage(rest, plain, html)

\* _get_body(msg)
get_body(msg) ==
    IF "parts" \in DOMAIN msg
    THEN LET w == WalkMessage(<<msg>>, <<>>, <<>>) IN BodyResult(w.plain, w.html)
    ELSE IF SingleIsHtml(msg) THEN html_to_text(PayloadText(msg))
    ELSE StripText(PayloadText(msg))

\* email_text.splitlines() of a payload text
RECURSIVE SplitLines(_)
SplitLines(t) ==
    IF t = <<>> THEN <<>>
    ELSE IF FirstIndex(t, 1, "\n") = 0 THEN <<t>>
    ELSE <<SubSeq(t, 1, FirstIndex(t, 1, "\n") - 1)>>
         \o SplitLines(SubSeq(t, FirstIndex(t, 1, "\n") + 1, Len(t)))

\* _get_file_icon(mime_type, filename); the icons are named, not drawn
get_file_icon(mime_type, filename) ==
    IF mime_type \in ImageTypes THEN "image"
    ELSE IF mime_type = "application/pdf" \/ filename \in {"f.pdf"} THEN "pdf"
    ELSE IF mime_type \in {"text/plain", "text/html"} THEN "text"
    ELSE "paperclip"

----------------------------------------------------------------------------
\* fetch_recent_emails (read_mail.py over the Gmail API, no_timing_read_mail.py
\* over IMAP).  A message is its root part together with its header list, a
\* sequence of [name, value] entries; the inbox is the sequence of fetch
\* results for the ids to read, oldest first.  An email's body is the
\* sequence of its lines.

\* Largest number of messages in the inbox.
MaxBatch == 2

\* An RFC 2047 encoded word of a known charset; it decodes to "x".
EncodedWord == "=?utf-8?q?x?="

\* An encoded word naming a charset Python has no codec for.
MalformedWord == "=?unknown-charset?q?x?="

PlainPart == [mimeType |-> "text/plain", body |-> [data |-> Data(<<"a">>), size |-> 1]]

WithHeaders(hs, part) == [k \in DOMAIN part \cup {"headers"} |->
                            IF k = "headers" THEN hs ELSE part[k]]

H(n, v) == [name |-> n, value |-> v]

\* Messages both transports can deliver.
ImapMessages ==
    {\* well formed
     WithHeaders(<<H("From", "x"), H("Subject", EncodedWord), H("Date", "d")>>, PlainPart),
     \* no headers at all
     PlainPart,
     \* subject and date missing, no body
     WithHeaders(<<H("From", "x")>>,
                 [mimeType |-> "multipart/mixed", body |-> [size |-> 0], parts |-> <<>>]),
     \* an undecodable part next to an attachment
     WithHeaders(<<H("From", "x"), H("Subject", "s"), H("Date", "d")>>,
                 Container(<<[mimeType |-> "text/plain", body |-> [data |-> BadData, size |-> 1]],
                             [mimeType |-> "application/pdf", disposition |-> "attachment",
                              filename |-> "f.pdf",
                              body |-> [attachmentId |-> "id1", size |-> 7]]>>)),
     \* a quoted reply under the text
     WithHeaders(<<H("From", EncodedWord), H("Subject", "s"), H("Subject", "t")>>,
                 [mimeType |-> "text/plain",
                  body |-> [data |-> Data(<<"a", "\n", ">", "b">>), size |-> 4]]),
     \* a subject in an unknown charset
     WithHeaders(<<H("From", "x"), H("Subject", MalformedWord), H("Date", "d")>>, PlainPart)}

\* The Gmail API can also answer without a payload, or with a header entry
\* that has no name.
GmailMessages ==
    ImapMessages \cup
    {[partId |-> ""],
     WithHeaders(<<[value |-> "x"]>>, PlainPart)}

Fetched(m) == [typ |-> "OK", msg |-> m]

\* imap.fetch answers that are not a message.
NotFetched == [typ |-> "NO"]

Inboxes(fetched) == UNION {[1..n -> fetched] : n \in 0..MaxBatch}

HeadersOf(m) == Get(m, "headers", <<>>)

\* h["name"] or h["value"] raises KeyError
HeaderEntryRaises(m) ==
    \E i \in DOMAIN HeadersOf(m) : ~({"name", "value"} \subseteq DOMAIN HeadersOf(m)[i])

Named(m, name) == {i \in DOMAIN HeadersOf(m) : Get(HeadersOf(m)[i], "name", "") = name}

\* headers.get(name, "") on the dict read_mail.py builds: the last entry wins
GmailHeader(m, name) ==
    IF Named(m, name) = {} THEN "" ELSE HeadersOf(m)[Highest(Named(m, name))].value

\* msg.get(name, "") of email.message.Message: the first entry wins
ImapHeader(m, name) ==
    IF Named(m, name) = {} THEN "" ELSE HeadersOf(m)[Lowest(Named(m, name))].value

\* _decode_header(value) raises LookupError
DecodeHeaderRaises(value) == value = MalformedWord

\* _decode_header(value)
decode_header(value) == IF value = EncodedWord THEN "x" ELSE value

WithIcon(att) ==
    [filename |-> att.filename, mimeType |-> att.mimeType, size |-> att.size,
     attachmentId |-> att.attachmentId,
     icon |-> get_file_icon(att.mimeType, att.filename)]

\* The dict read_mail.py appends for message m with id mid.
GmailEmail(mid, m) ==
    [id |-> mid,
     from |-> decode_header(GmailHeader(m, "From")),
     subject |-> decode_header(GmailHeader(m, "Subject")),
     date |-> GmailHeader(m, "Date"),
     body |-> strip_replies(SplitLines(extract_body_from_payload(m))),
     attachments |-> [i \in DOMAIN extract_attachments(m) |->
                         WithIcon(extract_attachments(m)[i])]]

\* The dict no_timing_read_mail.py appends for message m.
ImapEmail(m) ==
    [from |-> decode_header(ImapHeader(m, "From")),
     subject |-> decode_header(ImapHeader(m, "Subject")),
     date |-> ImapHeader(m, "Date"),
     body |-> strip_replies(SplitLines(get_body(m)))]

\* An iteration of read_mail.py's loop raises.
GmailRaises(m) ==
    \/ HeaderEntryRaises(m)
    \/ DecodeHeaderRaises(GmailHeader(m, "From"))
    \/ DecodeHeaderRaises(GmailHeader(m, "Subject"))

\* An iteration of no_timing_read_mail.py's loop raises.
ImapRaises(m) ==
    \/ DecodeHeaderRaises(ImapHeader(m, "From"))
    \/ DecodeHeaderRaises(ImapHeader(m, "Subject"))

InitFetch ==
    /\ fetcher \in {"gmail", "imap"}
    /\ inbox \in IF fetcher = "gmail"
                THEN Inboxes({Fetched(m) : m \in GmailMessages})
                ELSE Inboxes({Fetched(m) : m \in ImapMessages} \cup {NotFetched})
    /\ f_i = 1 /\ emails = <<>> /\ f_pc = "loop"
    /\ ClassifyIdle /\ ReclassifyIdle /\ StripIdle /\ ExtractIdle /\ RemoteIdle /\ OthersIdle

\* read_mail.py: one iteration of "for mid in ids" that reaches emails.append.
FetchGmailAppend ==
    /\ f_pc = "loop" /\ fetcher = "gmail" /\ f_i <= Len(inbox)
    /\ ~GmailRaises(inbox[f_i].msg)
    /\ emails' = Append(emails, GmailEmail(f_i, inbox[f_i].msg))
    /\ f_i' = f_i + 1
    /\ UNCHANGED <<fetcher, inbox, f_pc, cvars, rvars, svars, xvars, qvars, ovars>>

\* read_mail.py: the iteration raises; nothing in the loop or around it
\* catches, so the call ends with the exception.
FetchGmailRaise ==
    /\ f_pc = "loop" /\ fetcher = "gmail" /\ f_i <= Len(inbox)
    /\ GmailRaises(inbox[f_i].msg)
    /\ f_pc' = "raised"
    /\ UNCHANGED <<fetcher, inbox, f_i, emails, cvars, rvars, svars, xvars, qvars, ovars>>

\* no_timing_read_mail.py: "continue" on a fetch answer that is no message.
FetchImapSkip ==
    /\ f_pc = "loop" /\ fetcher = "imap" /\ f_i <= Len(inbox)
    /\ inbox[f_i].typ # "OK"
    /\ f_i' = f_i + 1
    /\ UNCHANGED <<fetcher, inbox, emails, f_pc, cvars, rvars, svars, xvars, qvars, ovars>>

\* no_timing_read_mail.py: one iteration that reaches emails.append.
FetchImapAppend ==
    /\ f_pc = "loop" /\ fetcher = "imap" /\ f_i <= Len(inbox)
    /\ inbox[f_i].typ = "OK"
    /\ ~ImapRaises(inbox[f_i].msg)
    /\ emails' = Append(emails, ImapEmail(inbox[f_i].msg))
    /\ f_i' = f_i + 1
    /\ UNCHANGED <<fetcher, inbox, f_pc, cvars, rvars, svars, xvars, qvars, ovars>>

\* no_timing_read_mail.py: the iteration raises; the try has a finally and
\* no except, so the call ends with the exception.
FetchImapRaise ==
    /\ f_pc = "loop" /\ fetcher = "imap" /\ f_i <= Len(inbox)
    /\ inbox[f_i].typ = "OK"
    /\ ImapRaises(inbox[f_i].msg)
    /\ f_pc' = "raised"
    /\ UNCHANGED <<fetcher, inbox, f_i, emails, cvars, rvars, svars, xvars, qvars, ovars>>

\* return emails
FetchReturn ==
    /\ f_pc = "loop" /\ f_i > Len(inbox)
    /\ f_pc' = "returned"
    /\ UNCHANGED <<fetcher, inbox, f_i, emails, cvars, rvars, svars, xvars, qvars, ovars>>

NextFetch ==
    \/ FetchGmailAppend \/ FetchGmailRaise
    \/ FetchImapSkip \/ FetchImapAppend \/ FetchImapRaise
    \/ FetchReturn

SpecFetch == InitFetch /\ [][NextFetch]_vars

----------------------------------------------------------------------------
\* The clients of the remote classifier: server_label and classify
\* (classifier/classify.py), classify_email (model-server/server_classify.py).
\* responses[i] is what requests.post meets on the call for email i.  A value
\* a function returns is <<>> for None and <<v>> for the value v.

\* Largest number of emails handed to classify.
MaxEmails == 2

\* response.status_code of a success
StatusOk == 200

\* requests.post raises (connection error, timeout)
NetworkFailure == [kind |-> "network_failure"]

\* response.json() raises
MalformedJson == [ok |-> FALSE]

Jsons == {MalformedJson, [ok |-> TRUE], [ok |-> TRUE, label |-> 0], [ok |-> TRUE, label |-> 1]}

Responses ==
    {NetworkFailure} \cup
    {[kind |-> "response", status |-> st, json |-> j] : st \in {StatusOk, 500}, j \in Jsons}

\* response.json()['label'] raises
LabelRaises(r) == IF r.json.ok THEN "label" \notin DOMAIN r.json ELSE TRUE

\* server_label(text) raises
ServerLabelRaises(r) == IF r = NetworkFailure THEN TRUE ELSE LabelRaises(r)

\* server_label(text): the label is printed and nothing is returned
server_label(r) == <<>>

\* classify_email(email_text) of server_classify.py raises
ClassifyEmailRaises(r) ==
    IF r = NetworkFailure THEN TRUE
    ELSE IF r.status = StatusOk THEN LabelRaises(r)
    ELSE TRUE

InitRemote ==
    /\ caller \in {"classify", "classify_email"}
    /\ responses \in IF caller = "classify"
                    THEN UNION {[1..n -> Responses] : n \in 0..MaxEmails}
                    ELSE [1..1 -> Responses]
    /\ q_i = 1 /\ q_label = <<>> /\ business_list = <<>> /\ q_pc = "loop"
    /\ ClassifyIdle /\ ReclassifyIdle /\ StripIdle /\ ExtractIdle /\ FetchIdle /\ OthersIdle

\* classify: one iteration of "for email in emails" in which server_label
\* returns.
ClIterate ==
    /\ q_pc = "loop" /\ caller = "classify" /\ q_i <= Len(responses)
    /\ ~ServerLabelRaises(responses[q_i])
    /\ q_label' = server_label(responses[q_i])
    /\ business_list' = IF q_label' = <<1>> THEN Append(business_list, q_i)
                        ELSE business_list
    /\ q_i' = q_i + 1
    /\ UNCHANGED <<caller, responses, q_pc, cvars, rvars, svars, xvars, fvars, ovars>>

\* classify: server_label raises; neither function catches.
ClRaise ==
    /\ q_pc = "loop" /\ caller = "classify" /\ q_i <= Len(responses)
    /\ ServerLabelRaises(responses[q_i])
    /\ q_pc' = "raised"
    /\ UNCHANGED <<caller, responses, q_i, q_label, business_list,
                   cvars, rvars, svars, xvars, fvars, ovars>>

\* classify: return business_list
ClReturn ==
    /\ q_pc = "loop" /\ caller = "classify" /\ q_i > Len(responses)
    /\ q_pc' = "returned"
    /\ UNCHANGED <<caller, responses, q_i, q_label, business_list,
                   cvars, rvars, svars, xvars, fvars, ovars>>

\* classify_email: return response.json()["label"]
CeReturn ==
    /\ q_pc = "loop" /\ caller = "classify_email"
    /\ ~ClassifyEmailRaises(responses[q_i])
    /\ q_label' = <<responses[q_i].json.label>>
    /\ q_pc' = "returned"
    /\ UNCHANGED <<caller, responses, q_i, business_list,
                   cvars, rvars, svars, xvars, fvars, ovars>>

\* classify_email: requests.post or response.json() raises, or the status
\* is not 200 and the function raises Exception itself.
CeRaise ==
    /\ q_pc = "loop" /\ caller = "classify_email"
    /\ ClassifyEmailRaises(responses[q_i])
    /\ q_pc' = "raised"
    /\ UNCHANGED <<caller, responses, q_i, q_label, business_list,
                   cvars, rvars, svars, xvars, fvars, ovars>>

NextRemote == ClIterate \/ ClRaise \/ ClReturn \/ CeReturn \/ CeRaise

SpecRemote == InitRemote /\ [][NextRemote]_vars

----------------------------------------------------------------------------
\* Several messages processed side by side, one worker each, every worker
\* doing what the loop body of fetch_recent_emails does and classifying the
\* message's text; the steps of the workers interleave freely.  A message is
\* its part tree together with the text the classifier is given.

\* Number of workers.
NWorkers == 2

WorkerMessages ==
    {[payload |-> p, text |-> t] :
        p \in {PlainPart,
                Container(<<[mimeType |-> "text/plain",
                             body |-> [data |-> Data(<<" ", "b">>), size |-> 2]],
                            [mimeType |-> "application/pdf", filename |-> "f.pdf",
                             body |-> [attachmentId |-> "id1", size |-> 7]]>>),
                Container(<<[mimeType |-> "text/html",
                             body |-> [data |-> Data(<<"a", "&lt;", "b">>), size |-> 3]]>>)},
        t \in {<<"lol">>, <<"contract">>}}

\* Mutant: plain_parts and html_parts are lists of the module, the ones
\* the first worker uses.
FrameOfModule(w) == 1

\* plain_parts and html_parts are created by each call of
\* _extract_body_from_payload: worker w appends to the lists of its own call.
Frame(w) == w

InitWorkers ==
    /\ workers \in [1..NWorkers ->
                      {[msg |-> m, pc |-> "body", pending |-> <<m.payload>>,
                        plain_parts |-> <<>>, html_parts |-> <<>>, body_raw |-> <<>>,
                        body |-> <<>>, attachments |-> <<>>,
                        is_casual |-> FALSE, confidence |-> 0] : m \in WorkerMessages}]
    /\ ClassifyIdle /\ ReclassifyIdle /\ StripIdle /\ ExtractIdle /\ FetchIdle
    /\ RemoteIdle /\ SessionIdle /\ AnalyzeIdle /\ ImapIdle /\ UiIdle

\* walk(part) of worker w's _extract_body_from_payload, for one part.
WkWalk(w) ==
    /\ workers[w].pc = "body" /\ workers[w].pending # <<>>
    /\ LET part == Head(workers[w].pending)
           f == Frame(w)
           plain == IF HasData(part) /\ MimeOf(part) = "text/plain"
                    THEN Append(workers[f].plain_parts, decode_base64(BodyOf(part).data))
                    ELSE workers[f].plain_parts
           html == IF HasData(part) /\ MimeOf(part) = "text/html"
                   THEN Append(workers[f].html_parts, decode_base64(BodyOf(part).data))
                   ELSE workers[f].html_parts
       IN  workers' = [workers EXCEPT
                          ![w].pending = NextPending(part, Tail(workers[w].pending)),
                          ![f].plain_parts = plain,
                          ![f].html_parts = html]
    /\ UNCHANGED <<cvars, rvars, svars, xvars, fvars, qvars, hvars, avars, lvars>>

\* body_raw = _extract_body_from_payload(payload), the walk being over
WkBodyReturn(w) ==
    /\ workers[w].pc = "body" /\ workers[w].pending = <<>>
    /\ workers' = [workers EXCEPT
                      ![w].body_raw = BodyResult(workers[Frame(w)].plain_parts,
                                                 workers[Frame(w)].html_parts),
                      ![w].pc = "strip"]
    /\ UNCHANGED <<cvars, rvars, svars, xvars, fvars, qvars, hvars, avars, lvars>>

\* body = strip_replies(body_raw)
WkStrip(w) ==
    /\ workers[w].pc = "strip"
    /\ workers' = [workers EXCEPT
                      ![w].body = strip_replies(SplitLines(workers[w].body_raw)),
                      ![w].pc = "attachments"]
    /\ UNCHANGED <<cvars, rvars, svars, xvars, fvars, qvars, hvars, avars, lvars>>

\* attachments = _extract_attachments(payload)
WkAttachments(w) ==
    /\ workers[w].pc = "attachments"
    /\ workers' = [workers EXCEPT
                      ![w].attachments = extract_attachments(workers[w].msg.payload),
                      ![w].pc = "classify"]
    /\ UNCHANGED <<cvars, rvars, svars, xvars, fvars, qvars, hvars, avars, lvars>>

\* is_casual, confidence, _ = classify_email(text)
WkClassify(w) ==
    /\ workers[w].pc = "classify"
    /\ workers' = [workers EXCEPT
                      ![w].is_casual = classify_email(workers[w].msg.text).is_casual,
                      ![w].confidence = classify_email(workers[w].msg.text).confidence,
                      ![w].pc = "done"]
    /\ UNCHANGED <<cvars, rvars, svars, xvars, fvars, qvars, hvars, avars, lvars>>

NextWorkers ==
    \E w \in 1..NWorkers :
        \/ WkWalk(w) \/ WkBodyReturn(w) \/ WkStrip(w) \/ WkAttachments(w) \/ WkClassify(w)

SpecWorkers == InitWorkers /\ [][NextWorkers]_vars

----------------------------------------------------------------------------
\* IMAP sessions: fetch_recent_emails (src/src/emails/no_timing_read_mail.py)
\* and process_emails (src/src/imap/gmail_downloader.py and
\* src/src/imap/gmail_downloader_withgeneratetodo.py, which differ only in
\* the folder that is selected before the search).
\*
\* The mailbox is the sequence of the messages the search matches, oldest
\* first; a message id is its position.  A message is described by what
\* fetching and parsing it does: "ok" (an email is produced), "skip" (the
\* fetch answers nothing usable, or the message is a reply) or "raise" (the
\* fetch or the parsing raises).  logins and logouts count the calls of
\* authenticate/login that succeeded and the calls of logout.

\* Largest number of messages of a mailbox.
MaxMailbox == 3
\* Largest limit passed to fetch_recent_emails.
MaxLimit == 3

MessageKinds == {"ok", "skip", "raise"}

Mailboxes == UNION {[1..n -> MessageKinds] : n \in 0..MaxMailbox}

Flows == {"fetch_recent_emails", "process_emails"}

\* data[0].split(): the ids of the messages of the mailbox, oldest first.
IdsOf(box) == [i \in 1..Len(box) |-> i]

\* ids[-limit:] of Python: -0 is 0, so limit 0 slices from the start; a limit
\* of at least len(ids) also keeps every id.
RecentIds(ids, n) ==
    IF n = 0 \/ n >= Len(ids) THEN ids
    ELSE SubSeq(ids, Len(ids) - n + 1, Len(ids))

InitImap ==
    /\ flow \in Flows
    /\ limit \in (IF flow = "fetch_recent_emails" THEN 0..MaxLimit ELSE {0})
    /\ mailbox \in Mailboxes
    /\ im_ids = <<>> /\ im_i = 1 /\ im_emails = <<>>
    /\ im_pc = "connect" /\ im_exit = "idle"
    /\ logins = 0 /\ logouts = 0
    /\ ClassifyIdle /\ ReclassifyIdle /\ StripIdle /\ ExtractIdle /\ FetchIdle
    /\ RemoteIdle /\ SessionIdle /\ AnalyzeIdle /\ WorkersIdle /\ UiIdle

\* Everything an IMAP step leaves alone.
ImapFrame == UNCHANGED <<cvars, rvars, svars, xvars, fvars, qvars, hvars, avars, wvars, uvars>>

\* imap.authenticate(...) / mail.login(...) succeeds.
ImLogin ==
    /\ im_pc = "connect"
    /\ logins' = logins + 1
    /\ im_pc' = "search"
    /\ UNCHANGED <<flow, limit, mailbox, im_ids, im_i, im_emails, im_exit, logouts>>
    /\ ImapFrame

\* Connecting or logging in raises: fetch_recent_emails authenticates before
\* its try statement, process_emails inside it (the handler returns []).
ImLoginFails ==
    /\ im_pc = "connect"
    /\ im_pc' = IF flow = "fetch_recent_emails" THEN "raised" ELSE "returned"
    /\ im_exit' = im_pc'
    /\ UNCHANGED <<flow, limit, mailbox, im_ids, im_i, im_emails, logins, logouts>>
    /\ ImapFrame

\* select and search answer OK.  fetch_recent_emails returns [] when there
\* is no id and keeps ids[-limit:] otherwise; process_emails keeps every id.
ImSearch ==
    /\ im_pc = "search"
    /\ IF flow = "fetch_recent_emails"
       THEN IF IdsOf(mailbox) = <<>>
            THEN /\ im_pc' = "finally" /\ im_exit' = "returned"
                 /\ UNCHANGED im_ids
            ELSE /\ im_ids' = RecentIds(IdsOf(mailbox), limit)
                 /\ im_pc' = "loop"
                 /\ UNCHANGED im_exit
       ELSE /\ im_ids' = IdsOf(mailbox)
            /\ im_pc' = "loop"
            /\ UNCHANGED im_exit
    /\ UNCHANGED <<flow, limit, mailbox, im_i, im_emails, logins, logouts>>
    /\ ImapFrame

\* The search does not answer OK: both functions return [], fetch_recent_emails
\* through its finally clause, process_emails at once.
ImSearchFails ==
    /\ im_pc = "search"
    /\ im_pc' = IF flow = "fetch_recent_emails" THEN "finally" ELSE "returned"
    /\ im_exit' = "returned"
    /\ UNCHANGED <<flow, limit, mailbox, im_ids, im_i, im_emails, logins, logouts>>
    /\ ImapFrame

\* One iteration of the loop over the ids: the message is turned into an
\* entry of the list, or skipped.
ImFetch ==
    /\ im_pc = "loop"
    /\ im_i <= Len(im_ids)
    /\ mailbox[im_ids[im_i]] # "raise"
    /\ im_emails' = IF mailbox[im_ids[im_i]] = "ok"
                    THEN Append(im_emails, im_ids[im_i])
                    ELSE im_emails
    /\ im_i' = im_i + 1
    /\ UNCHANGED <<flow, limit, mailbox, im_ids, im_pc, im_exit, logins, logouts>>
    /\ ImapFrame

\* An IMAP command, or the parsing of a message, raises inside the try
\* statement: fetch_recent_emails runs its finally clause and lets the
\* exception through, the handler of process_emails returns [].
ImRaise ==
    /\ \/ im_pc \in {"search", "label", "search_business"}
       \/ /\ im_pc \in {"loop", "loop_business"}
          /\ im_i <= Len(im_ids)
          /\ mailbox[im_ids[im_i]] = "raise"
    /\ IF flow = "fetch_recent_emails"
       THEN /\ im_pc' = "finally" /\ im_exit' = "raised"
            /\ UNCHANGED im_emails
       ELSE /\ im_pc' = "returned" /\ im_exit' = "returned"
            /\ im_emails' = <<>>
    /\ UNCHANGED <<flow, limit, mailbox, im_ids, im_i, logins, logouts>>
    /\ ImapFrame

\* The loop over the ids is over: fetch_recent_emails returns emails through
\* its finally clause, process_emails goes on to the labelling.
ImLoopDone ==
    /\ im_pc = "loop"
    /\ im_i > Len(im_ids)
    /\ IF flow = "fetch_recent_emails"
       THEN im_pc' = "finally" /\ im_exit' = "returned"
       ELSE im_pc' = "label" /\ UNCHANGED im_exit
    /\ UNCHANGED <<flow, limit, mailbox, im_ids, im_i, im_emails, logins, logouts>>
    /\ ImapFrame

\* process_emails: the originals found are labelled when there are some and
\* the user confirms; business_email_list starts empty.
ImLabel ==
    /\ im_pc = "label"
    /\ \E confirm \in {"y", "n"} :
        /\ im_emails' = <<>>
        /\ im_pc' = "search_business"
    /\ UNCHANGED <<flow, limit, mailbox, im_ids, im_i, im_exit, logins, logouts>>
    /\ ImapFrame

\* process_emails: the search of the messages labelled Business answers OK
\* with some of the messages, or does not answer OK (nothing is fetched).
ImSearchBusiness ==
    /\ im_pc = "search_business"
    /\ \/ \E n \in 0..Len(mailbox) :
            /\ im_ids' = SubSeq(IdsOf(mailbox), 1, n)
            /\ im_i' = 1
            /\ im_pc' = "loop_business"
       \/ /\ im_pc' = "logout"
          /\ UNCHANGED <<im_ids, im_i>>
    /\ UNCHANGED <<flow, limit, mailbox, im_emails, im_exit, logins, logouts>>
    /\ ImapFrame

\* process_emails: one iteration of the loop over bus_ids, or its end.
ImFetchBusiness ==
    /\ im_pc = "loop_business"
    /\ IF im_i <= Len(im_ids)
       THEN /\ mailbox[im_ids[im_i]] # "raise"
            /\ im_emails' = IF mailbox[im_ids[im_i]] = "ok"
                            THEN Append(im_emails, im_ids[im_i])
                            ELSE im_emails
            /\ im_i' = im_i + 1
            /\ UNCHANGED im_pc
       ELSE /\ im_pc' = "logout"
            /\ UNCHANGED <<im_emails, im_i>>
    /\ UNCHANGED <<flow, limit, mailbox, im_ids, im_exit, logins, logouts>>
    /\ ImapFrame

\* process_emails: mail.logout() and return business_email_list.
ImLogout ==
    /\ im_pc = "logout"
    /\ logouts' = logouts + 1
    /\ im_pc' = "returned" /\ im_exit' = "returned"
    /\ UNCHANGED <<flow, limit, mailbox, im_ids, im_i, im_emails, logins>>
    /\ ImapFrame

\* fetch_recent_emails: the finally clause closes the mailbox (an exception
\* of close is swallowed), logs out, and the function returns or lets the
\* pending exception through.
ImFinally ==
    /\ im_pc = "finally"
    /\ \E close_raises \in BOOLEAN :
        /\ logouts' = logouts + 1
        /\ im_pc' = im_exit
    /\ UNCHANGED <<flow, limit, mailbox, im_ids, im_i, im_emails, im_exit, logins>>
    /\ ImapFrame

NextImap ==
    \/ ImLogin \/ ImLoginFails \/ ImSearch \/ ImSearchFails \/ ImFetch \/ ImRaise
    \/ ImLoopDone \/ ImLabel \/ ImSearchBusiness \/ ImFetchBusiness \/ ImLogout
    \/ ImFinally

SpecImap == InitImap /\ [][NextImap]_vars

\* Every step of a session is a step of one running call, which goes on
\* until it returns or raises.
SpecImapFair == SpecImap /\ WF_vars(NextImap)

----------------------------------------------------------------------------
\* The session state of the UI (src/app.py): logout,
\* fetch_and_classify_emails, generate_todos.
\*
\* A field of st.session_state that is None is <<>>, a field holding v is
\* <<v>>.  An email is named by a number.  What classify returns is a dict
\* with the keys "business" and "personal", as the UI reads it, or a list of
\* the business emails, as classify of src/src/classifier/classify.py
\* builds it.  A todo list is described by the business emails it was
\* generated from.

\* Largest number of emails a fetch returns.
MaxFetched == 2

Mails == {1, 2, 3}

\* The lists a fetch may return: emails in inbox order, none twice.
FetchedLists ==
    {l \in UNION {[1..n -> Mails] : n \in 0..MaxFetched} :
        \A i, j \in 1..Len(l) : i < j => l[i] < l[j]}

\* The emails of l that are in the set keep.
RECURSIVE Select(_, _)
Select(l, keep) ==
    IF l = <<>> THEN <<>>
    ELSE IF Head(l) \in keep THEN <<Head(l)>> \o Select(Tail(l), keep)
    ELSE Select(Tail(l), keep)

SetOf(l) == {l[i] : i \in 1..Len(l)}

\* What classify(emails) may return.
ClassifyResults(l) ==
    {[type |-> "dict", business |-> Select(l, b), personal |-> Select(l, SetOf(l) \ b)] :
        b \in SUBSET SetOf(l)}
    \cup {[type |-> "list", items |-> Select(l, b)] : b \in SUBSET SetOf(l)}

\* not st.session_state.classified_emails
NotClassified(c) ==
    \/ c = <<>>
    \/ c[1].type = "list" /\ c[1].items = <<>>

\* The todo list generated from the business emails b.
TodoList(b) == [from |-> b]

InitUi ==
    /\ authenticated = FALSE
    /\ st_emails = <<>> /\ classified_emails = <<>> /\ todos = <<>>
    /\ ClassifyIdle /\ ReclassifyIdle /\ StripIdle /\ ExtractIdle /\ FetchIdle
    /\ RemoteIdle /\ SessionIdle /\ AnalyzeIdle /\ WorkersIdle /\ ImapIdle

\* Everything a UI step leaves alone.
UiFrame == UNCHANGED <<cvars, rvars, svars, xvars, fvars, qvars, hvars, avars, wvars, ivars>>

\* Sign in: do_auth succeeded, or a token file was found at start.
UiLogin ==
    /\ ~authenticated
    /\ authenticated' = TRUE
    /\ UNCHANGED <<st_emails, classified_emails, todos>>
    /\ UiFrame

\* logout()
UiLogout ==
    /\ authenticated
    /\ authenticated' = FALSE
    /\ st_emails' = <<>>
    /\ classified_emails' = <<>>
    /\ todos' = <<>>
    /\ UiFrame

\* fetch_and_classify_emails(): the fetch or classify raises, or the fetch
\* returns no email (nothing is stored); otherwise emails and the
\* classification are stored.  Reading the counts off a list raises after
\* the two assignments, and the handler only reports it.
UiFetch ==
    /\ authenticated
    /\ \E l \in FetchedLists, raises \in BOOLEAN :
        IF raises \/ l = <<>>
        THEN UNCHANGED <<st_emails, classified_emails>>
        ELSE \E classified \in ClassifyResults(l) :
                /\ st_emails' = <<l>>
                /\ classified_emails' = <<classified>>
    /\ UNCHANGED <<authenticated, todos>>
    /\ UiFrame

\* generate_todos(): returns early without classified emails or without
\* business emails; .get on a list, format_emails_for_prompt or
\* generate_todo_list raising is only reported; otherwise what
\* generate_todo_list returns (a text, or None) is stored.
UiGenerate ==
    /\ authenticated
    /\ IF NotClassified(classified_emails)
       THEN UNCHANGED todos
       ELSE IF classified_emails[1].type = "list"
       THEN UNCHANGED todos
       ELSE IF classified_emails[1].business = <<>>
       THEN UNCHANGED todos
       ELSE \E outcome \in {"text", "none", "raise"} :
                todos' = CASE outcome = "text" -> <<TodoList(classified_emails[1].business)>>
                           [] outcome = "none" -> <<>>
                           [] OTHER -> todos
    /\ UNCHANGED <<authenticated, st_emails, classified_emails>>
    /\ UiFrame

NextUi == UiLogin \/ UiLogout \/ UiFetch \/ UiGenerate

SpecUi == InitUi /\ [][NextUi]_vars

----------------------------------------------------------------------------
\* Properties of the IMAP sessions (checked under SpecImap and SpecImapFair).

\* The call is over: it returned or it raised.
ImapOver == im_pc \in {"returned", "raised"}

\* C28: in the IMAP flows every successful login/authenticate is eventually
\* followed by exactly one logout, on every exit path: a session that logged
\* in eventually logs out, and no session logs out twice.
C28_LoginThenOneLogout ==
    /\ (logins = 1) ~> (logouts = 1)
    /\ [](logouts <= 1)

\* The part of C28 that holds: fetch_recent_emails logs out exactly once on
\* every exit path, and a call of either function that is over has logged
\* out at most once.
C28_FetchRecentLogsOut ==
    /\ (flow = "fetch_recent_emails" /\ logins = 1) ~> (logouts = 1)
    /\ [](logouts <= logins)

\* The exit paths of process_emails that skip the logout: the early return
\* after a failed search and the exception handler.
C28_ProcessEmailsLeak ==
    /\ flow = "process_emails" /\ ImapOver
    /\ logins = 1 /\ logouts = 0

\* s is made of elements of t, in the order of t.
RECURSIVE IsSubsequence(_, _)
IsSubsequence(s, t) ==
    IF s = <<>> THEN TRUE
    ELSE IF t = <<>> THEN FALSE
    ELSE IF Head(s) = Head(t) THEN IsSubsequence(Tail(s), Tail(t))
    ELSE IsSubsequence(s, Tail(t))

\* The n most recent ids of the mailbox, in mailbox order.
MostRecent(n) ==
    SubSeq(IdsOf(mailbox), Len(mailbox) - (IF n < Len(mailbox) THEN n ELSE Len(mailbox)) + 1,
           Len(mailbox))

\* fetch_recent_emails returned its list.
FetchRecentReturned ==
    flow = "fetch_recent_emails" /\ im_pc = "returned" /\ logins = 1

\* C29: fetch_recent_emails(limit) over IMAP returns at most limit emails,
\* taken from the most recent message ids in mailbox order, for every limit
\* >= 0 (limit 0 returns no emails) and every mailbox size.
C29_AtMostLimit ==
    FetchRecentReturned =>
        /\ Len(im_emails) <= limit
        /\ IsSubsequence(im_emails, MostRecent(limit))

\* The part of C29 that holds: for a limit of at least 1.
C29_PositiveLimit ==
    (FetchRecentReturned /\ limit >= 1) =>
        /\ Len(im_emails) <= limit
        /\ IsSubsequence(im_emails, MostRecent(limit))

\* A limit of 0 returns every email of the mailbox.
C29_ZeroReturnsAll ==
    /\ FetchRecentReturned /\ limit = 0
    /\ Len(im_emails) = MaxMailbox

----------------------------------------------------------------------------
\* Properties of the UI session state (checked under SpecUi).

\* The todo list is the one generated from the business emails of the
\* classification that is stored.
TodosOfStored ==
    /\ classified_emails # <<>>
    /\ classified_emails[1].type = "dict"
    /\ todos = <<TodoList(classified_emails[1].business)>>

C30_GenerateAndLogout ==
    [][/\ UiGenerate =>
            \/ todos' = todos
            \/ todos' = <<>>
            \/ TodosOfStored'
       /\ (UiGenerate /\ (NotClassified(classified_emails)
                          \/ classified_emails[1].type = "list"
                          \/ classified_emails[1].business = <<>>)) => todos' = todos
       /\ UiLogout => (st_emails' = <<>> /\ classified_emails' = <<>> /\ todos' = <<>>)]_vars

\* A fetch has replaced the classification and the todo list of the previous
\* fetch is still stored.
C30_StaleTodos ==
    /\ todos # <<>> /\ classified_emails # <<>>
    /\ classified_emails[1].type = "dict"
    /\ todos[1].from # classified_emails[1].business

----------------------------------------------------------------------------
\* Properties of reclassify_dataset (checked under SpecReclassify).

\* The label a mapping gives a key.
LabelOf(d, t) == d[CHOOSE i \in DOMAIN d : d[i].text = t].label

\* C1: reclassify_dataset never changes an entry whose label is personal (0),
\* and an entry whose label differs between input and output was business (1)
\* in the input and is personal (0) in the output.
C1_OneWay ==
    \A j \in DOMAIN updated :
        LET old == LabelOf(emails_and_labels, updated[j].text)
            new == updated[j].label
        IN  /\ old = 0 => new = 0
            /\ new # old => old = 1 /\ new = 0

\* A returned pass that left alone a personal entry the engine scores business
\* with confidence at or above the threshold, and flipped a business entry.
C1_Witness ==
    /\ rc_pc = "returned"
    /\ \E j \in DOMAIN updated :
           /\ emails_and_labels[j].label = 0 /\ updated[j].label = 0
           /\ ~classify_email(updated[j].text).is_casual
           /\ classify_email(updated[j].text).confidence >= threshold
    /\ \E k \in DOMAIN updated :
           emails_and_labels[k].label = 1 /\ updated[k].label = 0

\* C2: a business entry flips to personal iff classify_email labels its text
\* personal with confidence >= threshold (equality flips); every other
\* business entry keeps label business.
C2_FlipIff ==
    rc_pc = "returned" =>
        \A i \in DOMAIN emails_and_labels :
            emails_and_labels[i].label = 1 =>
                LET t == emails_and_labels[i].text
                    r == classify_email(t)
                IN  /\ t \in KeySet(updated)
                    /\ LabelOf(updated, t) =
                           IF r.is_casual /\ r.confidence >= threshold THEN 0 ELSE 1

\* A returned pass with a business entry flipped at confidence = threshold, and
\* a business entry the engine scores personal below the threshold, kept.
C2_Witness ==
    /\ rc_pc = "returned"
    /\ \E i \in DOMAIN emails_and_labels :
           /\ emails_and_labels[i].label = 1
           /\ classify_email(emails_and_labels[i].text).is_casual
           /\ classify_email(emails_and_labels[i].text).confidence = threshold
           /\ updated[i].label = 0
    /\ \E i \in DOMAIN emails_and_labels :
           /\ emails_and_labels[i].label = 1
           /\ classify_email(emails_and_labels[i].text).is_casual
           /\ classify_email(emails_and_labels[i].text).confidence < threshold
           /\ updated[i].label = 1

\* C3: reclassify_dataset is pure: the mapping it returns has the key set of
\* the input mapping, and no step of the call modifies the input mapping.
C3_Pure ==
    /\ [](rc_pc = "returned" =>
            /\ KeySet(updated) = KeySet(emails_and_labels)
            /\ Len(updated) = Len(emails_and_labels))
    /\ [][emails_and_labels' = emails_and_labels]_vars

\* A returned pass over a mapping with a key longer than three tokens whose
\* output differs from the input.
C3_Witness ==
    /\ rc_pc = "returned"
    /\ \E i \in DOMAIN emails_and_labels :
           /\ Len(emails_and_labels[i].text) > 3
           /\ updated[i].text = emails_and_labels[i].text
           /\ updated[i].label # emails_and_labels[i].label

----------------------------------------------------------------------------
\* Properties of classify_email (checked under SpecClassify).

\* The text matches no pattern of the six tiers.
NoTierMatch(t) ==
    /\ CountMatches(STRONG_BUSINESS, t) = 0 /\ CountMatches(MEDIUM_BUSINESS, t) = 0
    /\ CountMatches(WEAK_BUSINESS, t) = 0 /\ CountMatches(STRONG_CASUAL, t) = 0
    /\ CountMatches(MEDIUM_CASUAL, t) = 0 /\ CountMatches(WEAK_CASUAL, t) = 0

\* C4: classify_email returns personal (is_casual) iff the final score is
\* strictly greater than 0; a score of exactly 0, which a text matching no
\* pattern has, resolves to business.
C4_TieBreak ==
    pc = "done" =>
        /\ is_casual <=> score > 0
        /\ score = 0 => ~is_casual
        /\ matched = <<>> => score = 0 /\ ~is_casual

\* A tie between matched patterns: the score is 0 and the label business.
C4_Witness == pc = "done" /\ score = 0 /\ matched # <<>> /\ ~is_casual

\* The input of the call is empty (or only whitespace) text, or is not text.
EmptyOrNonText ==
    email_text.type # "str" \/ Normalize(email_text.value) = <<>>

C5_NeverRaises == pc # "raised"

C6_Confidence ==
    pc = "done" =>
        /\ confidence = (IF Abs(score) <= 10 THEN Abs(score) ELSE 10)
        /\ confidence \in 0..10
        /\ confidence = 0 <=> score = 0
        /\ Abs(score) >= 10 => confidence = 10

\* A returned call whose score is beyond -5.0, with confidence 1.0.
C6_Witness == pc = "done" /\ score < -10 /\ confidence = 10

\* The score the block a step runs adds.
Added == score' - score

\* C7 as stated: in the weak casual tier and in the weak business tier alike,
\* weak signals contribute only when at least two patterns of the tier match.
C7_Original ==
    [][/\ (pc = "weak_casual" /\ pc' = "short" /\ CountMatches(WEAK_CASUAL, text) < 2)
          => Added = 0
       /\ (pc = "weak_biz" /\ pc' = "strong_casual" /\ CountMatches(WEAK_BUSINESS, text) < 2)
          => Added = 0]_vars

\* C7 as amended: weak casual signals add 0.5 each only when at least two
\* weak casual patterns match, a single match adding nothing; weak business
\* signals subtract 0.5 each from the first match on.
C7_WeakTiers ==
    [][/\ (pc = "weak_casual" /\ pc' = "short") =>
             Added = (IF CountMatches(WEAK_CASUAL, text) >= 2
                      THEN CountMatches(WEAK_CASUAL, text) ELSE 0)
       /\ (pc = "weak_biz" /\ pc' = "strong_casual") =>
             Added = -CountMatches(WEAK_BUSINESS, text)]_vars

\* One weak casual and one weak business match: only the latter counted.
C7_Witness ==
    /\ pc = "short"
    /\ CountMatches(WEAK_CASUAL, text) = 1 /\ CountMatches(WEAK_BUSINESS, text) = 1
    /\ score = -1 /\ matched = <<<<"BIZ_WEAK", 1>>>>

\* The number of SHORT_BOOST entries of the matched list.
BoostEntries == Cardinality({i \in DOMAIN matched : matched[i][1] = "SHORT_BOOST"})

\* C8: the short-message boost adds exactly 0.5 iff the normalized text has at
\* most 10 words and the running score after the subject rule and the six
\* tiers is strictly positive; it is applied at most once.
C8_ShortBoost ==
    pc \in {"decide", "done"} =>
        LET t == Normalize(email_text.value)
            short == Len(t) <= 10
        IN  /\ score = RunningScore(t) + (IF short /\ RunningScore(t) > 0 THEN 1 ELSE 0)
            /\ BoostEntries = (IF short /\ RunningScore(t) > 0 THEN 1 ELSE 0)

\* A positive text of exactly ten words, boosted.
C8_Witness ==
    /\ pc = "done" /\ Len(text) = 10
    /\ RunningScore(text) > 0 /\ score = RunningScore(text) + 1

----------------------------------------------------------------------------
\* Properties of strip_replies (checked under SpecStrip).

\* The index of the first reply-header line of a body, Len + 1 without one.
FirstHeader(b) ==
    LET hs == {i \in DOMAIN b : looks_like_reply_header(b[i])}
    IN  IF hs = {} THEN Len(b) + 1 ELSE CHOOSE i \in hs : \A j \in hs : i <= j

NotQuoted(l) == ~IsQuoted(l)

\* The lines before index n that are not quoted, in order.
UnquotedBefore(b, n) == SelectSeq(SubSeq(b, 1, n - 1), NotQuoted)

IsPrefix(p, q) == Len(p) <= Len(q) /\ p = SubSeq(q, 1, Len(p))

\* C10: strip_replies makes one pass, COLLECTING until the first reply-header
\* line and STOPPED from there on: the header line and every later line is
\* discarded, so the output is made of lines before it only; a body whose
\* first line is a reply header, or whose lines before the first reply header
\* are all quoted, yields the empty string.
C10_StopAtHeader ==
    LET h == FirstHeader(body)
    IN  /\ sr_i < h
        /\ IsPrefix(kept, UnquotedBefore(body, h))
        /\ sr_state = "STOPPED" <=> (sr_pc \in {"trim", "done"} /\ h <= Len(body))
        /\ sr_state = "STOPPED" => sr_i = h - 1
        /\ sr_pc = "done" =>
              /\ sr_result = StripJoined(kept)
              /\ \A i \in DOMAIN sr_result : ~looks_like_reply_header(sr_result[i])
              /\ Len(sr_result) <= Len(UnquotedBefore(body, h))
              /\ (h <= Len(body) /\ \A i \in 1..(h - 1) : IsQuoted(body[i])) =>
                     sr_result = <<>>

\* A returned call that stopped at a header in the middle of the body, with a
\* plain line on each side of it: only the first is returned.
C10_Witness ==
    /\ sr_pc = "done" /\ sr_state = "STOPPED"
    /\ Len(body) = 3 /\ FirstHeader(body) = 2
    /\ body[1] = <<"a">> /\ body[3] = <<"a", ">">>
    /\ sr_result = <<<<"a">>>>

\* A returned call on a quoted line followed by a reply header: empty string.
C10_QuotedThenHeader ==
    /\ sr_pc = "done" /\ body = << <<">", "a">>, <<"On", " ", "a", " ", "wrote:">>, <<"a">> >>
    /\ sr_result = <<>>

\* C11: strip_replies is idempotent: the string a call returns is returned
\* unchanged by a second call on it.  The returned string is the one the
\* line-by-line run of the function produces.
C11_Idempotent ==
    sr_pc = "done" =>
        /\ sr_result = strip_replies(body)
        /\ strip_replies(sr_result) = sr_result

\* A returned call that dropped a quoted line and trimmed both ends, and
\* whose result is not empty.
C11_Witness ==
    /\ sr_pc = "done"
    /\ body = << <<" ", "a">>, <<">", "a">>, <<"a", " ">> >>
    /\ sr_result = << <<"a">>, <<"a">> >>
    /\ strip_replies(sr_result) = sr_result

\* The indices of the lines of ls that are not blank.
NonBlank(ls) == {i \in DOMAIN ls : ~IsBlank(ls[i])}

\* ls without its trailing blank lines.
TrailingBlankTrimmed(ls) ==
    IF NonBlank(ls) = {} THEN <<>> ELSE SubSeq(ls, 1, Highest(NonBlank(ls)))

\* The text of ls without leading and trailing whitespace: from the first
\* line that is not blank to the last, the first without its leading and the
\* last without its trailing blanks.
WhitespaceTrimmed(ls) ==
    IF NonBlank(ls) = {} THEN <<>>
    ELSE LET lo == Lowest(NonBlank(ls))
             hi == Highest(NonBlank(ls))
         IN  [j \in 1..(hi - lo + 1) |->
                 LET x == IF j = 1 THEN LStrip(ls[lo]) ELSE ls[lo + j - 1]
                 IN  IF j = hi - lo + 1 THEN RStrip(x) ELSE x]

\* C12 as stated: while COLLECTING a quoted line is discarded and the state
\* stays COLLECTING, every other line that is not a header is kept, and the
\* result is exactly the kept lines in their original order with only the
\* trailing blank lines trimmed.
C12_Original ==
    /\ sr_pc = "loop" =>
           sr_state = "COLLECTING" /\ kept = UnquotedBefore(body, sr_i + 1)
    /\ sr_pc = "done" =>
           sr_result = TrailingBlankTrimmed(UnquotedBefore(body, FirstHeader(body)))

\* C12 amended: while COLLECTING a quoted line is discarded and the state
\* stays COLLECTING, every other line that is not a header is kept, and the
\* result is the kept lines in their original order with the whitespace at
\* both ends of the text trimmed: trailing blank lines, leading blank lines,
\* the leading blanks of the first line and the trailing blanks of the last.
C12_KeptTrimmed ==
    /\ sr_pc = "loop" =>
           sr_state = "COLLECTING" /\ kept = UnquotedBefore(body, sr_i + 1)
    /\ sr_pc = "done" =>
           sr_result = WhitespaceTrimmed(UnquotedBefore(body, FirstHeader(body)))

\* A returned call that discarded a quoted first line, kept the line after
\* it and trimmed the leading blanks of that line and a trailing blank line.
C12_Witness ==
    /\ sr_pc = "done" /\ sr_state = "COLLECTING"
    /\ body = << <<">", "a">>, <<" ", "a">>, <<" ">> >>
    /\ sr_result = << <<"a">> >>

----------------------------------------------------------------------------
\* Properties of the body and attachment extractors (checked under SpecBody
\* and SpecExtract).

\* The parts of a tree in depth-first, top-to-bottom order.
RECURSIVE PreOrder(_), PreOrderAll(_)
PreOrder(part) == <<part>> \o PreOrderAll(Children(part))

PreOrderAll(ps) == IF ps = <<>> THEN <<>> ELSE PreOrder(Head(ps)) \o PreOrderAll(Tail(ps))

\* _extract_body_from_payload has returned / _get_body has returned from
\* its multipart branch.
PayloadExtracted == ex_pc \in {"attachments", "done"}

MultipartGot == ex_pc = "gb_done" /\ "parts" \in DOMAIN payload

\* The parts that hand a payload of the given type to each extractor.
PayloadPartOfType(part, type) == HasData(part) /\ MimeOf(part) = type

MessagePartOfType(part, type) ==
    ~Skipped(part) /\ ~DecodeRaises(part) /\ CTypeOf(part) = type

\* The payload texts of the given type in traversal order, for the
\* extractor that ran.
PayloadTexts(type) ==
    LET IsPayloadPart(part) == PayloadPartOfType(part, type)
        IsMessagePart(part) == MessagePartOfType(part, type)
        ps == IF PayloadExtracted THEN SelectSeq(PreOrder(payload), IsPayloadPart)
              ELSE SelectSeq(PreOrder(payload), IsMessagePart)
    IN  [i \in DOMAIN ps |->
            IF PayloadExtracted THEN decode_base64(ps[i].body.data) ELSE PayloadText(ps[i])]

Reduced(hs) == [i \in DOMAIN hs |-> html_to_text(hs[i])]

ToBeSkipped(part) ==
    \/ DispOf(part) = "attachment"
    \/ MimeOf(part) \in ImageTypes \cup ApplicationTypes

\* A step that collects the payload of the part it visits.
CollectsPayload == plain_parts' # plain_parts \/ html_parts' # html_parts

\* C14: during the body extraction of a multipart message no payload of a
\* part whose disposition is "attachment" or whose type is an image, audio,
\* video or binary application type gets into the body, in both extractors:
\* no step collects the payload of such a part.
C14_SkipsAttachments ==
    [][("parts" \in DOMAIN payload /\ CollectsPayload) => ~ToBeSkipped(Head(pending))]_vars

\* The same of _get_body alone (checked under SpecGetBody).
C14_GetBodySkips ==
    [][(ex_pc = "gb_walk" /\ CollectsPayload) => ~ToBeSkipped(Head(pending))]_vars

\* _extract_body_from_payload has returned a body that holds the payload of
\* a text part with the disposition "attachment".
C14_AttachmentInBody ==
    /\ PayloadExtracted /\ "parts" \in DOMAIN payload /\ Len(payload.parts) = 2
    /\ ~ToBeSkipped(payload.parts[1]) /\ PayloadPartOfType(payload.parts[1], "text/plain")
    /\ ToBeSkipped(payload.parts[2]) /\ PayloadPartOfType(payload.parts[2], "text/plain")
    /\ body_raw = <<"a", "\n", "b">>

\* A part whose payload fails to decode.
DecodeFails(part) == HasData(part) /\ ~part.body.data.ok

\* The payload texts of the given type in traversal order, the parts that
\* fail to decode left out.
DecodedTexts(type) ==
    LET IsPayloadPart(part) == PayloadPartOfType(part, type) /\ ~DecodeFails(part)
        IsMessagePart(part) == MessagePartOfType(part, type) /\ ~DecodeFails(part)
        ps == IF PayloadExtracted THEN SelectSeq(PreOrder(payload), IsPayloadPart)
              ELSE SelectSeq(PreOrder(payload), IsMessagePart)
    IN  [i \in DOMAIN ps |-> PayloadText(ps[i])]

\* The body of the message without the parts that fail to decode.
BodyWithoutFailing ==
    IF DecodedTexts("text/plain") # <<>>
    THEN StripText(JoinParts(DecodedTexts("text/plain")))
    ELSE IF DecodedTexts("text/html") # <<>>
         THEN StripText(JoinParts(Reduced(DecodedTexts("text/html"))))
    ELSE <<>>

\* C15: a decoding failure on a part is contained to that part: the part
\* contributes nothing and every other part is extracted as if the failing
\* part were absent, so the body returned is the body of the message
\* without its failing parts (the empty string when nothing else is left).
C15_Contained ==
    (PayloadExtracted \/ MultipartGot) => body_raw = BodyWithoutFailing

\* The same of _get_body alone (checked under SpecGetBody).
C15_GetBodyContained ==
    MultipartGot => body_raw = BodyWithoutFailing

\* _extract_body_from_payload has returned the empty string for an
\* undecodable text/plain part followed by an HTML part.
C15_FallbackLost ==
    /\ PayloadExtracted /\ "parts" \in DOMAIN payload /\ Len(payload.parts) = 2
    /\ DecodeFails(payload.parts[1]) /\ MimeOf(payload.parts[1]) = "text/plain"
    /\ PayloadPartOfType(payload.parts[2], "text/html") /\ ~DecodeFails(payload.parts[2])
    /\ body_raw = <<>>

\* A multipart message whose parts below the containers are all HTML parts
\* with a payload.
OnlyHtmlParts ==
    /\ "parts" \in DOMAIN payload
    /\ \E i \in DOMAIN PreOrder(payload) : MimeOf(PreOrder(payload)[i]) = "text/html"
    /\ \A i \in DOMAIN PreOrder(payload) :
          LET part == PreOrder(payload)[i]
          IN  \/ "parts" \in DOMAIN part
              \/ MimeOf(part) = "text/html" /\ HasData(part) /\ ~DecodeFails(part)

IsAngle(c) == c \in {"<", ">"}

NoAngle(t) == \A i \in DOMAIN t : ~IsAngle(t[i])

\* An HTML text without &lt; and &gt; entities in which every "<" opens a
\* tag and every ">" closes one.
TagsOnly(t) ==
    LET angles == SelectSeq(t, IsAngle)
    IN  /\ \A i \in DOMAIN t : t[i] \notin {"&lt;", "&gt;"}
        /\ Len(angles) % 2 = 0
        /\ \A i \in DOMAIN angles : angles[i] = IF i % 2 = 1 THEN "<" ELSE ">"
        /\ \A i \in DOMAIN t : t[i] = "<" => (i < Len(t) /\ t[i + 1] # ">")

NamedWithHandle(part) ==
    /\ "filename" \in DOMAIN part /\ part.filename # ""
    /\ "attachmentId" \in DOMAIN part.body /\ part.body.attachmentId # ""

\* The part is reported by the i-th attachment.
ReportedAt(part, i) ==
    /\ attachments[i].filename = Get(part, "filename", "")
    /\ attachments[i].attachmentId = Get(part.body, "attachmentId", "")

\* C17: _extract_attachments reports a part if and only if it carries both
\* a filename that is not empty and an attachmentId; the size of a reported
\* attachment is 0 when the part reports none and its MIME type is
\* application/octet-stream when the part reports none.
C17_ReportedIff ==
    ex_pc = "done" =>
        \A k \in DOMAIN PreOrder(payload) :
            LET part == PreOrder(payload)[k]
            IN  /\ NamedWithHandle(part) <=> \E i \in DOMAIN attachments : ReportedAt(part, i)
                /\ \A i \in DOMAIN attachments : ReportedAt(part, i) =>
                      /\ attachments[i].size =
                             IF "size" \in DOMAIN part.body THEN part.body.size ELSE 0
                      /\ attachments[i].mimeType =
                             IF "mimeType" \in DOMAIN part THEN part.mimeType
                             ELSE "application/octet-stream"

\* A message with a part that has a handle but an empty filename and a part
\* that reports neither size nor type: only the second is reported, with
\* the defaults.
C17_Witness ==
    /\ ex_pc = "done" /\ "parts" \in DOMAIN payload /\ Len(payload.parts) = 2
    /\ Get(payload.parts[1], "filename", "") = ""
    /\ Get(payload.parts[1].body, "attachmentId", "") = "id3"
    /\ attachments = << [filename |-> "g", mimeType |-> "application/octet-stream",
                         size |-> 0, attachmentId |-> "id2"] >>

\* The handles of the parts that carry a filename and a handle, in
\* depth-first, top-to-bottom order.
HandlesInPreOrder ==
    LET ps == SelectSeq(PreOrder(payload), NamedWithHandle)
    IN  [i \in DOMAIN ps |-> ps[i].body.attachmentId]

\* C18: the attachments are in the order of the depth-first, top-to-bottom
\* traversal of the part tree, every qualifying part once, and the body
\* extractor has collected its payloads in the order of the same traversal.
C18_PreOrder ==
    ex_pc = "done" =>
        /\ [i \in DOMAIN attachments |-> attachments[i].attachmentId] = HandlesInPreOrder
        /\ plain_parts = PayloadTexts("text/plain")
        /\ html_parts = PayloadTexts("text/html")

\* A message whose first part is a multipart part holding one attachment
\* and whose second part is another attachment: the nested one comes first.
C18_Witness ==
    /\ ex_pc = "done" /\ "parts" \in DOMAIN payload /\ Len(payload.parts) = 2
    /\ "parts" \in DOMAIN payload.parts[1] /\ Len(payload.parts[1].parts) = 1
    /\ NamedWithHandle(payload.parts[1].parts[1])
    /\ NamedWithHandle(payload.parts[2])
    /\ [i \in DOMAIN attachments |-> attachments[i].attachmentId] = <<"id2", "id1">>

----------------------------------------------------------------------------
\* More properties of classify_email (checked under SpecClassify).

\* The number of patterns of a tier that match the text.
Hits(tier, t) == Cardinality({i \in DOMAIN tier : Matches(tier[i], t)})

\* The number of places of the text where a word of a pattern of the tier is.
WordHits(tier, t) ==
    Cardinality({k \in DOMAIN t : \E i \in DOMAIN tier :
                    tier[i].kind = "word" /\ t[k] \in tier[i].a})

\* C24: the final score is the subject modifier, minus 2.0 per matching
\* strong business pattern, minus 1.0 per matching medium business pattern,
\* plus 2.0 per matching strong casual pattern, plus 1.0 per matching medium
\* casual pattern, plus the weak-tier contributions and the short-message
\* boost, a pattern counting once however often it occurs; label and
\* confidence are determined by the score alone.
C24_ScoreFormula ==
    pc = "done" =>
        LET t == Normalize(email_text.value)
            run == analyze_subject(t).score
                   - 4 * Hits(STRONG_BUSINESS, t) - 2 * Hits(MEDIUM_BUSINESS, t)
                   + 4 * Hits(STRONG_CASUAL, t) + 2 * Hits(MEDIUM_CASUAL, t)
                   + WeakBusinessScore(t) + WeakCasualScore(t)
        IN  /\ score = run + (IF Len(t) <= 10 /\ run > 0 THEN 1 ELSE 0)
            /\ is_casual = (score > 0)
            /\ confidence = (IF Abs(score) < 10 THEN Abs(score) ELSE 10)

\* A classified text in which the word of a strong casual pattern occurs
\* twice, counted once, with a matched list of two entries.
C24_Witness ==
    /\ pc = "done"
    /\ WordHits(STRONG_CASUAL, text) = 2 /\ Hits(STRONG_CASUAL, text) = 1
    /\ score = 5 /\ Len(matched) = 2

\* The text is a subject line of at least one word and lines of body after it.
SubjectLineThenBody(tokens) ==
    /\ Len(tokens) >= 4
    /\ tokens[1] = "subject:" /\ tokens[2] \notin {"\n", "subject:"}
    /\ \E k \in 3..(Len(tokens) - 1) : tokens[k] = "\n"
    /\ \A k \in 2..Len(tokens) : tokens[k] # "subject:"

\* The first line of the text.
FirstLine(tokens) ==
    SubSeq(tokens, 1, Lowest({k \in DOMAIN tokens : tokens[k] = "\n"}) - 1)

\* C26: given a subject line followed by a body, the subject modifier is
\* that of the subject line alone: forward markers and subject keywords of
\* the body lines do not change it.
C26_SubjectLineOnly ==
    (pc = "strong_biz" /\ SubjectLineThenBody(email_text.value)) =>
        score = analyze_subject(FirstLine(email_text.value)).score

\* A text without a line break after the subject gets the modifier of its
\* subject.
C26_OneLine ==
    (pc = "strong_biz" /\ \A k \in DOMAIN email_text.value : email_text.value[k] # "\n") =>
        score = analyze_subject(email_text.value).score

\* C27: the short-message boost never changes the label: the label
\* returned is the one the score before the boost gives, and the boost is
\* added only to a score that is already personal, whose confidence it
\* does not lower.
C27_BoostKeepsLabel ==
    /\ [][(pc = "short" /\ pc' = "decide") =>
              /\ (score' > 0) = (score > 0)
              /\ score' # score =>
                     /\ score > 0
                     /\ (IF score' < 10 THEN score' ELSE 10)
                            >= (IF score < 10 THEN score ELSE 10)]_vars
    /\ [](pc = "done" =>
             is_casual = (RunningScore(Normalize(email_text.value)) > 0))

\* A short text scored personal, boosted and returned as personal with a
\* higher confidence than the score before the boost gives.
C27_Witness ==
    /\ pc = "done" /\ is_casual
    /\ score = RunningScore(text) + 1
    /\ confidence = RunningScore(text) + 1

----------------------------------------------------------------------------
\* More properties of reclassify_dataset (checked under SpecReclassify).

\* reclassify_dataset(emails_and_labels): threshold 0.5, verbose True
DefaultCall == threshold = DefaultThreshold /\ verbose

\* C25: on a mapping without a business entry, the empty mapping included,
\* reclassify_dataset called with its default arguments does not raise and
\* returns a mapping equal to the input.
C25_NoBusinessNoOp ==
    (DefaultCall /\ TotalBusiness(emails_and_labels) = 0) =>
        /\ rc_pc # "raised"
        /\ rc_pc = "returned" => updated = emails_and_labels

\* With the summary off the pass over a mapping without a business entry
\* returns the input.
C25_QuietNoOp ==
    (~verbose /\ TotalBusiness(emails_and_labels) = 0 /\ rc_pc = "returned") =>
        updated = emails_and_labels

----------------------------------------------------------------------------
\* Properties of fetch_recent_emails (checked under SpecFetch).

\* The messages of the inbox that were fetched, oldest first.
FetchedMessages ==
    LET IsFetched(item) == item.typ = "OK" IN SelectSeq(inbox, IsFetched)

\* C19: processing a batch never ends because one message is malformed: the
\* call never ends with an exception, and what it returns holds one item for
\* every fetched message of the batch.
C19_BatchNeverTerminated ==
    /\ f_pc # "raised"
    /\ f_pc = "returned" => Len(emails) = Len(FetchedMessages)

\* A message without headers and an empty multipart message come back as
\* items with empty fields, next to the other message of the batch.
C19_Degraded ==
    /\ f_pc = "returned" /\ Len(emails) = 2
    /\ emails[1].from = "" /\ emails[1].subject = "" /\ emails[1].date = ""
    /\ emails[2].body = <<>> /\ emails[2].subject = ""

----------------------------------------------------------------------------
\* Properties of the remote classifier clients (checked under SpecRemote).

\* The call for email i fails: no connection, a status that is not a
\* success, or a body that is not JSON.
CallFails(i) ==
    IF responses[i] = NetworkFailure THEN TRUE
    ELSE responses[i].status # StatusOk \/ responses[i].json = MalformedJson

\* C20: a failing call to the remote classifier is not fatal: the caller
\* never ends with the exception, and classify goes through the remaining
\* emails, counting the email of a failed call as personal.
C20_FailureNotFatal ==
    /\ q_pc # "raised"
    /\ (q_pc = "returned" /\ caller = "classify") =>
           /\ q_i = Len(responses) + 1
           /\ \A k \in DOMAIN business_list : ~CallFails(business_list[k])

\* classify went through a batch in which a call answered a status that is
\* not a success.
C20_StatusIgnored ==
    /\ q_pc = "returned" /\ caller = "classify" /\ Len(responses) = 2
    /\ responses[1] # NetworkFailure /\ responses[1].status # StatusOk

----------------------------------------------------------------------------
\* Properties of repeated classify_email calls (checked under SpecSession).

\* C21: classify_email is deterministic: two calls of a caller with the same
\* input text return the same label and the same confidence, whatever was
\* classified and however far a reclassification pass went in between.
C21_Deterministic ==
    \A i \in DOMAIN calls : \A j \in DOMAIN calls :
        calls[i].input = calls[j].input =>
            /\ calls[i].is_casual = calls[j].is_casual
            /\ calls[i].confidence = calls[j].confidence

\* The same text was classified twice with a nonzero score, and the
\* reclassification pass advanced between the two calls.
C21_Witness ==
    /\ Len(calls) = 2
    /\ calls[1].input = calls[2].input
    /\ calls[1].confidence > 0
    /\ calls[1].pass < calls[2].pass

----------------------------------------------------------------------------
\* Properties of analyze_dataset (checked under SpecAnalyze).

\* The entries of the output of the pass whose label is not the input's.
Changed == {i \in DOMAIN updated : updated[i].label # emails_and_labels[i].label}

\* C22: for each of its thresholds analyze_dataset reports the number of
\* entries reclassify_dataset changes on the same mapping with that
\* threshold; the counts do not increase with the threshold; no step of
\* analyze_dataset modifies the mapping.
C22_AnalysisAgrees ==
    /\ []((an_pc = "returned" /\ rc_i = Len(emails_and_labels)) =>
            /\ results[threshold] = Cardinality(Changed)
            /\ results[threshold] = flipped_count)
    /\ [](an_pc = "returned" =>
            \A t \in AnalysisThresholds : \A u \in AnalysisThresholds :
                t <= u => results[t] >= results[u])
    /\ [][emails_and_labels' = emails_and_labels]_vars

\* Both have gone through a mapping with two business entries of which one
\* flips at the threshold 0.5, with equality, and none at 0.6.
C22_Witness ==
    /\ an_pc = "returned" /\ rc_pc = "returned"
    /\ threshold = 5 /\ an_i = 2
    /\ results[5] = 1 /\ results[6] = 0 /\ results[3] = 2
    /\ Cardinality(Changed) = 1

----------------------------------------------------------------------------
\* Properties of messages processed side by side (checked under SpecWorkers).

\* What processing message m alone gives.
Alone(m) ==
    [body |-> strip_replies(SplitLines(extract_body_from_payload(m.payload))),
     attachments |-> extract_attachments(m.payload),
     is_casual |-> classify_email(m.text).is_casual,
     confidence |-> classify_email(m.text).confidence]

\* C23: under every interleaving of the workers, the record and the
\* classification each worker ends with are those of processing its message
\* alone.
C23_Independent ==
    \A w \in 1..NWorkers :
        workers[w].pc = "done" =>
            /\ workers[w].body = Alone(workers[w].msg).body
            /\ workers[w].attachments = Alone(workers[w].msg).attachments
            /\ workers[w].is_casual = Alone(workers[w].msg).is_casual
            /\ workers[w].confidence = Alone(workers[w].msg).confidence

\* The second worker is done with a message that has a body while the first
\* is still walking another message and has collected a part of it.
C23_Witness ==
    /\ workers[2].pc = "done" /\ workers[2].body # <<>>
    /\ workers[1].pc = "body" /\ workers[1].pending # <<>>
    /\ workers[1].plain_parts # <<>>
    /\ workers[1].msg # workers[2].msg

====
